---- MODULE Spec2Model ----
(***************************************************************************)
(* State-machine model of the DYNAMO interpreter core (bfix/dynamo):       *)
(* names and classes (variable.go), equations (equation.go), the equation  *)
(* list with its topological sort and validation (eqnlist.go), and the     *)
(* statement dispatcher and run loop of the model (model.go).              *)
(*                                                                         *)
(* Spec drives the dispatcher with the statements of a deck in any order;  *)
(* SpecMain is main: Parse reads the lines of a source file, hands the     *)
(* statements to the dispatcher, and main ends with Quit or Fatalf.        *)
(*                                                                         *)
(* Values are fixed-point numbers with four decimal places (1.0 is Unit,   *)
(* 0.1 is 1000); a product is rounded down to the fourth decimal place.    *)
(* The calls of the printer and of the plotter during a run return         *)
(* Success; the files of the sinks are state of SpecMain only.             *)
(***************************************************************************)
EXTENDS Integers, Sequences, FiniteSets, TLC

\* ---------------------------------------------------------------- bounds
\* longest equation list the dispatcher is driven to
MaxLen == 3
\* number of epochs of the run loop that are explored
MaxEpoch == 2
\* number of RUN statements of a deck
MaxRuns == 2
\* the largest number of automatic variables that are allocated
MaxAuto == 2
\* the largest number of print jobs of the printer
MaxJobs == 2

\* ------------------------------------------------------------- constants
NAME_KIND_CONST == 0
NAME_KIND_INIT == 1
NAME_KIND_LEVEL == 2
NAME_KIND_RATE == 3
NAME_KIND_AUX == 4
NAME_KIND_SUPPL == 5
NAME_STAGE_NONE == 0
NAME_STAGE_OLD == 1
NAME_STAGE_NEW == 2
NAME_MISMATCH == 0
NAME_SAMEVAR == 1
NAME_SAMEKIND == 2
NAME_SAMESTAGE == 4
NAME_MATCH == 7

\* defaults of the system variables (tenths): TIME=0, DT=0.1, LENGTH=10
DefTIME == 0
DefDT == 1000
DefLENGTH == 100000
DefPRTPER == 0
DefPLTPER == 0

Success == "Success"

\* the run identifiers of RUN statements
RunIds == {"R1"}

\* the run identifiers of EDIT statements
EditIds == {"R1", "R2"}

\* the fixed-point representation of the Variable 1.0
Unit == 10000

\* -------------------------------------------------------------- helpers
Range(s) == {s[i] : i \in 1..Len(s)}

\* ------------------------------------------------------------ Name, Class
\* Name.setIndex: the class of an indexed identifier
setIndex(n, idx) ==
  CASE idx = "J"  -> [name |-> [Name |-> n.Name, Kind |-> NAME_KIND_LEVEL, Stage |-> NAME_STAGE_OLD], res |-> Success]
    [] idx = "JK" -> [name |-> [Name |-> n.Name, Kind |-> NAME_KIND_RATE, Stage |-> NAME_STAGE_OLD], res |-> Success]
    [] idx = "K"  -> [name |-> [Name |-> n.Name, Kind |-> NAME_KIND_LEVEL, Stage |-> NAME_STAGE_NEW], res |-> Success]
    [] idx = "KL" -> [name |-> [Name |-> n.Name, Kind |-> NAME_KIND_RATE, Stage |-> NAME_STAGE_NEW], res |-> Success]
    [] OTHER      -> [name |-> n, res |-> "ErrParseInvalidIndex"]

\* NewName (lax mode): an identifier x = [n, i] of the source, i = "" when
\* the identifier carries no index
NewName(x) ==
  LET bare == [Name |-> x.n, Kind |-> NAME_KIND_CONST, Stage |-> NAME_STAGE_NONE]
  IN  IF x.i = "" THEN [name |-> bare, res |-> Success] ELSE setIndex(bare, x.i)

\* Name.GetIndex: the index of the class of a name
GetIndex(n) ==
  CASE n.Stage = NAME_STAGE_OLD /\ n.Kind = NAME_KIND_LEVEL -> "J"
    [] n.Stage = NAME_STAGE_OLD /\ n.Kind = NAME_KIND_RATE  -> "JK"
    [] n.Stage = NAME_STAGE_NEW /\ n.Kind = NAME_KIND_LEVEL -> "K"
    [] n.Stage = NAME_STAGE_NEW /\ n.Kind = NAME_KIND_RATE  -> "KL"
    [] OTHER -> ""

\* strings.Split(n, "."): the parts of the text of an identifier x = [n, i]
Split(x) == IF x.i = "" THEN <<x.n>> ELSE <<x.n, x.i>>

\* a parser that takes a text without index as a level of the new state
NewLevelFromString(x) ==
  IF x.i # ""
    THEN setIndex([Name |-> x.n, Kind |-> NAME_KIND_LEVEL, Stage |-> NAME_STAGE_NEW], x.i)
    ELSE [name |-> [Name |-> x.n, Kind |-> NAME_KIND_LEVEL, Stage |-> NAME_STAGE_NEW], res |-> Success]

\* NewNameFromString for the parts of a text: the first part is the name
\* of a constant without stage, a second part is its index
fromParts(parts) ==
  IF Len(parts) > 1
    THEN setIndex([Name |-> parts[1], Kind |-> NAME_KIND_CONST, Stage |-> NAME_STAGE_NONE], parts[2])
    ELSE [name |-> [Name |-> parts[1], Kind |-> NAME_KIND_CONST, Stage |-> NAME_STAGE_NONE],
          res |-> Success]

\* NewNameFromString: the name of the text of an identifier
NewNameFromString(x) == fromParts(Split(x))

\* Name.String: the display key NAME/K, kept as the pair <<NAME, "/K">>;
\* auxiliaries and supplements get no kind marker
String(n) ==
  <<n.Name, CASE n.Kind = NAME_KIND_CONST -> "/C"
              [] n.Kind = NAME_KIND_INIT  -> "/I"
              [] n.Kind = NAME_KIND_LEVEL -> "/L"
              [] n.Kind = NAME_KIND_RATE  -> "/R"
              [] OTHER -> "">>

\* Name.Compare: bitset over SAMEVAR, SAMEKIND, SAMESTAGE
Compare(n, m) ==
  (IF n.Name = m.Name THEN NAME_SAMEVAR ELSE 0)
  + (IF n.Kind = m.Kind THEN NAME_SAMEKIND ELSE 0)
  + (IF n.Stage = m.Stage THEN NAME_SAMESTAGE ELSE 0)

\* the pre-defined variables
SystemNames == {"TIME", "DT", "LENGTH", "PLTPER", "PRTPER"}

\* the names n for which strings.Index("TIME,DT,LENGTH,PLTPER,PRTPER,", n+",")
\* finds a match: the pre-defined variables and their trailing parts
SystemTails ==
  SystemNames \cup {"IME", "ME", "E", "T", "ENGTH", "NGTH", "GTH", "TH", "H",
                    "LTPER", "TPER", "PER", "ER", "R", "RTPER"}

\* Model.IsSystem: the names of SystemTails and the names of the tables
IsSystem(tables, name) == name \in SystemTails \/ name \in DOMAIN tables

\* --------------------------------------------------------------- Equation
\* A fragment of an equation statement is [t, ops, lit]: the target
\* identifier, the operands of the right side and a literal; the formula is
\* the sum of the operands and the literal.  An operand is an identifier
\* (k = "var"), a call of a table function f(n,p,0,1,1) (k = "tab"), a
\* binary expression x op y (k = "bin"), an expression in parentheses
\* (k = "par"), a literal (k = "lit") or a unary minus (k = "neg").

\* autoId: the last automatic variable identifier
VARIABLE autoId

\* NewAutoVar: the name of the automatic variable with identifier k
AutoName(k) == "_" \o ToString(k)

\* fcnList: the table functions of the catalog
fcnList ==
  [TABLE |-> [NumArgs |-> 5, NumVars |-> 1],
   TABHL |-> [NumArgs |-> 5, NumVars |-> 0]]

\* HasFunction for a call with five arguments when id automatic variables
\* exist: the internal variables of the call instance
HasFunction(name, id) ==
  IF name \notin DOMAIN fcnList THEN [intern |-> <<>>, res |-> "ErrParseUnknownFunction"]
  ELSE [intern |-> [j \in 1..fcnList[name].NumVars |-> AutoName(id + j)], res |-> Success]

\* the right-side walk of NewEquation: dependencies and references, and
\* the automatic variables the calls have requested
RECURSIVE check(_, _, _)
check(mode, ops, acc) ==
  IF ops = <<>> \/ acc.res # Success THEN acc
  ELSE LET x == Head(ops)
           nn == NewName(x)
           nm == IF mode = "N" THEN [nn.name EXCEPT !.Stage = NAME_STAGE_NONE] ELSE nn.name
           hf == IF x.k = "tab" THEN HasFunction(x.f, acc.id) ELSE [intern |-> <<>>, res |-> Success]
           ac == [acc EXCEPT !.id = @ + Len(hf.intern)]
           rest == IF x.k = "tab" THEN <<x.pos>> \o Tail(ops) ELSE Tail(ops)
       IN  IF x.k = "bin" THEN check(mode, <<x.x, x.y>> \o Tail(ops), acc)
           ELSE IF x.k \in {"par", "neg"} THEN check(mode, <<x.x>> \o Tail(ops), acc)
           ELSE IF x.k = "lit" THEN check(mode, Tail(ops), acc)
           ELSE IF hf.res # Success THEN [acc EXCEPT !.res = hf.res]
           ELSE IF nn.res # Success THEN [ac EXCEPT !.res = nn.res]
           ELSE IF nm.Stage # NAME_STAGE_OLD
             THEN check(mode, rest, [ac EXCEPT !.deps = Append(@, nm)])
             ELSE check(mode, rest, [ac EXCEPT !.refs = Append(@, nm)])

\* the right side as NewEquation leaves it: every call has got its
\* internal variables as further arguments
RECURSIVE bind(_, _)
bind(ops, id) ==
  IF ops = <<>> THEN [ops |-> <<>>, id |-> id]
  ELSE LET x == Head(ops)
           h == CASE x.k = "tab" ->
                       LET own == HasFunction(x.f, id).intern
                           p == bind(<<x.pos>>, id + Len(own))
                       IN  [x |-> [x EXCEPT !.args = own, !.pos = p.ops[1]], id |-> p.id]
                  [] x.k = "bin" ->
                       LET l == bind(<<x.x>>, id)
                           r == bind(<<x.y>>, l.id)
                       IN  [x |-> [x EXCEPT !.x = l.ops[1], !.y = r.ops[1]], id |-> r.id]
                  [] x.k \in {"par", "neg"} ->
                       LET l == bind(<<x.x>>, id)
                       IN  [x |-> [x EXCEPT !.x = l.ops[1]], id |-> l.id]
                  [] OTHER -> [x |-> x, id |-> id]
           t == bind(Tail(ops), h.id)
       IN  [ops |-> <<h.x>> \o t.ops, id |-> t.id]

\* the class the statement mode forces on the target
TargetOf(mode, nm) ==
  CASE mode = "N" ->
         IF nm.Kind # NAME_KIND_CONST THEN [name |-> nm, res |-> "ErrModelEqnBadTargetKind"]
         ELSE [name |-> [nm EXCEPT !.Kind = NAME_KIND_INIT], res |-> Success]
    [] mode = "A" ->
         IF nm.Kind # NAME_KIND_LEVEL /\ nm.Kind # NAME_KIND_RATE
           THEN [name |-> nm, res |-> "ErrModelEqnBadTargetKind"]
         ELSE IF nm.Stage # NAME_STAGE_NEW
           THEN [name |-> nm, res |-> "ErrModelEqnBadTargetStage"]
         ELSE [name |-> [nm EXCEPT !.Kind = NAME_KIND_AUX], res |-> Success]
    [] mode = "S" ->
         IF nm.Kind # NAME_KIND_LEVEL THEN [name |-> nm, res |-> "ErrModelEqnBadTargetKind"]
         ELSE IF nm.Stage # NAME_STAGE_NEW
           THEN [name |-> nm, res |-> "ErrModelEqnBadTargetStage"]
         ELSE [name |-> [nm EXCEPT !.Kind = NAME_KIND_SUPPL], res |-> Success]
    [] OTHER -> [name |-> nm, res |-> Success]

\* NewEquation for a statement with a single assignment when id automatic
\* variables exist: [eqns, res, id], id counts the automatic variables
\* that exist afterwards
NewEquationAt(mode, frag, id) ==
  LET tn == NewName(frag.t)
      tg == TargetOf(mode, tn.name)
      w  == check(mode, frag.ops, [deps |-> <<>>, refs |-> <<>>, res |-> Success, id |-> id])
  IN  IF tn.res # Success THEN [eqns |-> <<>>, res |-> tn.res, id |-> id]
      ELSE IF tg.res # Success THEN [eqns |-> <<>>, res |-> tg.res, id |-> id]
      ELSE IF w.res # Success THEN [eqns |-> <<>>, res |-> w.res, id |-> w.id]
      ELSE [eqns |-> <<[Target |-> tg.name, Dependencies |-> w.deps,
                        References |-> w.refs, Mode |-> mode,
                        Formula |-> [ops |-> bind(frag.ops, id).ops, lit |-> frag.lit]]>>,
            res |-> Success, id |-> w.id]

NewEquation1(mode, frag) == NewEquationAt(mode, frag, autoId)

\* the multi-assignment loop of NewEquation: fragments are split off from
\* the end of the statement, the loop stops at the first failure
RECURSIVE addEqnAt(_, _, _)
addEqnAt(frags, eqns, id) ==
  IF frags = <<>> THEN [eqns |-> eqns, res |-> Success, id |-> id]
  ELSE LET r == NewEquationAt("C", frags[Len(frags)], id)
       IN  IF r.res # Success THEN [eqns |-> eqns, res |-> r.res, id |-> r.id]
           ELSE addEqnAt(SubSeq(frags, 1, Len(frags) - 1), eqns \o r.eqns, r.id)

addEqn(frags, eqns) == addEqnAt(frags, eqns, autoId)

\* NewEquation: a statement [mode, frags] to a list of equations
NewEquation(stmt) ==
  IF stmt.mode = "C" /\ Len(stmt.frags) > 1 THEN addEqn(stmt.frags, <<>>)
  ELSE NewEquation1(stmt.mode, stmt.frags[1])

\* ---------------------------------------------------------------- EqnList
\* EqnList.match: equations match for fully matching targets, or for the
\* same variable when both modes are C or N (strings.Contains("CNC", m1+m2))
match(e1, e2) ==
  \/ Compare(e1.Target, e2.Target) = NAME_MATCH
  \/ /\ Compare(e1.Target, e2.Target) % 2 = NAME_SAMEVAR
     /\ <<e1.Mode, e2.Mode>> \in {<<"C", "N">>, <<"N", "C">>}

\* EqnList.Contains
Contains(el, eqn) == \E i \in 1..Len(el) : match(el[i], eqn)

\* EqnList.Replace: the first matching equation is replaced in place
Replace(el, eqn) ==
  IF Contains(el, eqn)
    THEN LET i == CHOOSE k \in 1..Len(el) :
                    match(el[k], eqn) /\ \A j \in 1..(k - 1) : ~match(el[j], eqn)
         IN  [el EXCEPT ![i] = eqn]
    ELSE el

\* the list argument of validateEqn: nil, or the equations by display key
NilList == [nil |-> TRUE, eqns |-> <<>>]

MapOf(el) == [nil |-> FALSE, eqns |-> el]

HasKey(list, key) == \E i \in 1..Len(list.eqns) : String(list.eqns[i].Target) = key

Lookup(list, key) ==
  list.eqns[CHOOSE i \in 1..Len(list.eqns) : String(list.eqns[i].Target) = key]

\* the legal dependency classes of validateEqn, by mode
TargetClass(mode) ==
  CASE mode = "C" -> [Kind |-> NAME_KIND_CONST, Stage |-> NAME_STAGE_NONE]
    [] mode = "N" -> [Kind |-> NAME_KIND_INIT, Stage |-> NAME_STAGE_NONE]
    [] mode = "L" -> [Kind |-> NAME_KIND_LEVEL, Stage |-> NAME_STAGE_NEW]
    [] mode = "R" -> [Kind |-> NAME_KIND_RATE, Stage |-> NAME_STAGE_NEW]
    [] mode = "A" -> [Kind |-> NAME_KIND_AUX, Stage |-> NAME_STAGE_NEW]
    [] mode = "S" -> [Kind |-> NAME_KIND_SUPPL, Stage |-> NAME_STAGE_NEW]

\* the dependency classes as they would be if a constant could be given by
\* constants
DepClassesConst(mode) ==
  CASE mode = "C" -> {<<NAME_KIND_CONST, NAME_STAGE_NONE>>}
    [] mode = "N" -> {<<NAME_KIND_CONST, NAME_STAGE_NONE>>, <<NAME_KIND_INIT, NAME_STAGE_NONE>>}
    [] mode = "L" -> {<<NAME_KIND_CONST, NAME_STAGE_NONE>>, <<NAME_KIND_INIT, NAME_STAGE_NONE>>,
                      <<NAME_KIND_LEVEL, NAME_STAGE_OLD>>, <<NAME_KIND_AUX, NAME_STAGE_OLD>>,
                      <<NAME_KIND_RATE, NAME_STAGE_OLD>>}
    [] mode = "R" -> {<<NAME_KIND_CONST, NAME_STAGE_NONE>>, <<NAME_KIND_INIT, NAME_STAGE_NONE>>,
                      <<NAME_KIND_LEVEL, NAME_STAGE_NEW>>, <<NAME_KIND_AUX, NAME_STAGE_NEW>>,
                      <<NAME_KIND_RATE, NAME_STAGE_OLD>>}
    [] mode = "A" -> {<<NAME_KIND_CONST, NAME_STAGE_NONE>>, <<NAME_KIND_INIT, NAME_STAGE_NONE>>,
                      <<NAME_KIND_AUX, NAME_STAGE_NEW>>, <<NAME_KIND_LEVEL, NAME_STAGE_NEW>>,
                      <<NAME_KIND_RATE, NAME_STAGE_OLD>>}
    [] mode = "S" -> {<<NAME_KIND_CONST, NAME_STAGE_NONE>>, <<NAME_KIND_INIT, NAME_STAGE_NONE>>,
                      <<NAME_KIND_AUX, NAME_STAGE_NEW>>, <<NAME_KIND_LEVEL, NAME_STAGE_NEW>>,
                      <<NAME_KIND_SUPPL, NAME_STAGE_NEW>>, <<NAME_KIND_RATE, NAME_STAGE_OLD>>}

DepClasses(mode) ==
  CASE mode = "C" -> {}
    [] mode = "N" -> {<<NAME_KIND_CONST, NAME_STAGE_NONE>>, <<NAME_KIND_INIT, NAME_STAGE_NONE>>}
    [] mode = "L" -> {<<NAME_KIND_CONST, NAME_STAGE_NONE>>, <<NAME_KIND_INIT, NAME_STAGE_NONE>>,
                      <<NAME_KIND_LEVEL, NAME_STAGE_OLD>>, <<NAME_KIND_AUX, NAME_STAGE_OLD>>,
                      <<NAME_KIND_RATE, NAME_STAGE_OLD>>}
    [] mode = "R" -> {<<NAME_KIND_CONST, NAME_STAGE_NONE>>, <<NAME_KIND_INIT, NAME_STAGE_NONE>>,
                      <<NAME_KIND_LEVEL, NAME_STAGE_NEW>>, <<NAME_KIND_AUX, NAME_STAGE_NEW>>,
                      <<NAME_KIND_RATE, NAME_STAGE_OLD>>}
    [] mode = "A" -> {<<NAME_KIND_CONST, NAME_STAGE_NONE>>, <<NAME_KIND_INIT, NAME_STAGE_NONE>>,
                      <<NAME_KIND_AUX, NAME_STAGE_NEW>>, <<NAME_KIND_LEVEL, NAME_STAGE_NEW>>,
                      <<NAME_KIND_RATE, NAME_STAGE_OLD>>}
    [] mode = "S" -> {<<NAME_KIND_CONST, NAME_STAGE_NONE>>, <<NAME_KIND_INIT, NAME_STAGE_NONE>>,
                      <<NAME_KIND_AUX, NAME_STAGE_NEW>>, <<NAME_KIND_LEVEL, NAME_STAGE_NEW>>,
                      <<NAME_KIND_SUPPL, NAME_STAGE_NEW>>, <<NAME_KIND_RATE, NAME_STAGE_OLD>>}

\* the dependency loop of the check closure of validateEqn
RECURSIVE checkDeps(_, _, _, _)
checkDeps(tables, deps, classes, list) ==
  IF deps = <<>> THEN Success
  ELSE LET d == Head(deps)
           name == String(d)
           alt == IF name[2] = "/C" THEN <<d.Name, "/I">>
                  ELSE IF name[2] = "/L" THEN <<d.Name, "/A">> ELSE name
           key == IF HasKey(list, name) THEN name ELSE alt
       IN  IF IsSystem(tables, d.Name) THEN checkDeps(tables, Tail(deps), classes, list)
           ELSE IF ~HasKey(list, key) THEN "ErrModelUnknownEqn"
           ELSE IF <<Lookup(list, key).Target.Kind, d.Stage>> \notin classes
             THEN "ErrModelEqnBadDependClass"
           ELSE checkDeps(tables, Tail(deps), classes, list)

\* the check closure of validateEqn: target kind, target stage, dependencies
checkEqn(tables, eqn, list) ==
  IF eqn.Target.Kind # TargetClass(eqn.Mode).Kind THEN "ErrModelEqnBadTargetKind"
  ELSE IF eqn.Target.Stage # TargetClass(eqn.Mode).Stage THEN "ErrModelEqnBadTargetStage"
  ELSE IF list.nil THEN Success
  ELSE checkDeps(tables, eqn.Dependencies, DepClasses(eqn.Mode), list)

\* EqnList.validateEqn: in modes N and R every failure of the check is
\* logged as a warning and replaced by Success
validateEqn(tables, eqn, list) ==
  LET res == checkEqn(tables, eqn, list)
  IN  IF eqn.Mode \in {"N", "R"} /\ res # Success THEN Success ELSE res

\* EqnList.Validate: display keys must be unique, then every equation is
\* validated against the list
RECURSIVE validateAll(_, _, _)
validateAll(tables, el, i) ==
  IF i > Len(el) THEN Success
  ELSE LET r == validateEqn(tables, el[i], MapOf(el))
       IN  IF r # Success THEN r ELSE validateAll(tables, el, i + 1)

Validate(tables, el) ==
  IF \E i, j \in 1..Len(el) : i < j /\ String(el[i].Target) = String(el[j].Target)
    THEN "ErrModelEqnAmbigious"
    ELSE validateAll(tables, el, 1)

\* ------------------------------------------------------------------- Sort
\* positions of the equations of the init, run and suppl buckets
InitPos(el) == {i \in 1..Len(el) : el[i].Mode \in {"C", "N"}}

RunPos(el) == {i \in 1..Len(el) : el[i].Mode \in {"A", "R", "L"}}

SupplPos(el) == {i \in 1..Len(el) : el[i].Mode = "S"}

BucketNames(el, bucket) == {el[i].Target.Name : i \in bucket}

\* a Go map is ranged over in an unspecified order: every order of the
\* entries of a bucket is possible
Perms(S) ==
  {p \in [1..Cardinality(S) -> S] : \A i, j \in 1..Cardinality(S) : p[i] = p[j] => i = j}

\* the bucket filling loop of Sort fails when a target name comes twice in
\* the init bucket or twice in the run bucket (the suppl map is never filled)
VariableExists(el) ==
  \E i, j \in 1..Len(el) :
    /\ i < j
    /\ el[i].Target.Name = el[j].Target.Name
    /\ \/ {i, j} \subseteq InitPos(el)
       \/ {i, j} \subseteq RunPos(el)

\* the first loop of eqnSort as it would be if a name without a defining
\* equation were passed over
RECURSIVE depScanLenient(_, _, _, _, _, _, _)
depScanLenient(tables, el, pos, ds, list, ref, acc) ==
  IF ds = <<>> THEN acc
  ELSE LET d == Head(ds)
       IN  IF IsSystem(tables, d.Name) THEN depScanLenient(tables, el, pos, Tail(ds), list, ref, acc)
           ELSE IF d.Name \in BucketNames(el, list)
             THEN LET x == CHOOSE p \in list : el[p].Target.Name = d.Name
                  IN  depScanLenient(tables, el, pos, Tail(ds), list, ref,
                                     IF x # pos THEN [acc EXCEPT !.deps = @ \cup {x}] ELSE acc)
           ELSE depScanLenient(tables, el, pos, Tail(ds), list, ref, acc)

\* the first loop of eqnSort as it would be without the test x.pos # entry.pos:
\* an entry that reads its own target then waits for itself
RECURSIVE depScanSelf(_, _, _, _, _, _, _)
depScanSelf(tables, el, pos, ds, list, ref, acc) ==
  IF ds = <<>> THEN acc
  ELSE LET d == Head(ds)
       IN  IF IsSystem(tables, d.Name) THEN depScanSelf(tables, el, pos, Tail(ds), list, ref, acc)
           ELSE IF d.Name \in BucketNames(el, list)
             THEN LET x == CHOOSE p \in list : el[p].Target.Name = d.Name
                  IN  depScanSelf(tables, el, pos, Tail(ds), list, ref,
                                  [acc EXCEPT !.deps = @ \cup {x}])
           ELSE IF d.Name \in ref THEN depScanSelf(tables, el, pos, Tail(ds), list, ref, acc)
           ELSE [acc EXCEPT !.unknown = TRUE]

\* first loop of eqnSort for one entry: the positions the entry depends on;
\* the walk over the dependencies stops at the first unknown name
RECURSIVE depScan(_, _, _, _, _, _, _)
depScan(tables, el, pos, ds, list, ref, acc) ==
  IF ds = <<>> THEN acc
  ELSE LET d == Head(ds)
       IN  IF IsSystem(tables, d.Name) THEN depScan(tables, el, pos, Tail(ds), list, ref, acc)
           ELSE IF d.Name \in BucketNames(el, list)
             THEN LET x == CHOOSE p \in list : el[p].Target.Name = d.Name
                  IN  depScan(tables, el, pos, Tail(ds), list, ref,
                              IF x # pos THEN [acc EXCEPT !.deps = @ \cup {x}] ELSE acc)
           ELSE IF d.Name \in ref THEN depScan(tables, el, pos, Tail(ds), list, ref, acc)
           ELSE [acc EXCEPT !.unknown = TRUE]

\* Kahn's algorithm as it would be if a free entry were put in front of the
\* sorted entries instead of behind them
RECURSIVE kahnPrepend(_, _, _, _)
kahnPrepend(S, graph, L, deps) ==
  IF S = <<>> THEN [L |-> L, graph |-> graph]
  ELSE LET n == Head(S)
           left == [p \in DOMAIN deps |-> deps[p] \ {n}]
       IN  kahnPrepend(Tail(S) \o SelectSeq(graph, LAMBDA m : left[m] = {}),
                       SelectSeq(graph, LAMBDA m : left[m] # {}),
                       <<n>> \o L, left)

\* the main loop of Kahn's algorithm: S is the queue of free entries, graph
\* the pending entries, L the sorted entries
RECURSIVE kahn(_, _, _, _)
kahn(S, graph, L, deps) ==
  IF S = <<>> THEN [L |-> L, graph |-> graph]
  ELSE LET n == Head(S)
           left == [p \in DOMAIN deps |-> deps[p] \ {n}]
       IN  kahn(Tail(S) \o SelectSeq(graph, LAMBDA m : left[m] = {}),
                SelectSeq(graph, LAMBDA m : left[m] # {}),
                Append(L, n), left)

\* eqnSort as it would be if the entries were emitted in the order of the
\* map instead of the order Kahn's algorithm finds
eqnSortMapOrder(tables, el, list, ref, order) ==
  LET scan == [p \in list |->
                 depScan(tables, el, p, el[p].Dependencies, list, ref,
                         [deps |-> {}, unknown |-> FALSE])]
      deps == [p \in list |-> scan[p].deps]
      k == kahn(SelectSeq(order, LAMBDA p : deps[p] = {}),
                SelectSeq(order, LAMBDA p : deps[p] # {}), <<>>, deps)
  IN  IF k.graph # <<>> THEN [out |-> <<>>, res |-> "ErrModelDependencyLoop"]
      ELSE [out |-> order,
            res |-> IF \E p \in list : scan[p].unknown THEN "ErrModelUnknownEqn" ELSE Success]

\* the eqnSort closure of Sort: list is the bucket to sort, ref the names of
\* the other bucket, order the order in which the map of the bucket is ranged
eqnSort(tables, el, list, ref, order) ==
  LET scan == [p \in list |->
                 depScan(tables, el, p, el[p].Dependencies, list, ref,
                         [deps |-> {}, unknown |-> FALSE])]
      deps == [p \in list |-> scan[p].deps]
      k == kahn(SelectSeq(order, LAMBDA p : deps[p] = {}),
                SelectSeq(order, LAMBDA p : deps[p] # {}), <<>>, deps)
  IN  IF k.graph # <<>> THEN [out |-> <<>>, res |-> "ErrModelDependencyLoop"]
      ELSE [out |-> k.L,
            res |-> IF \E p \in list : scan[p].unknown THEN "ErrModelUnknownEqn" ELSE Success]

\* the equations of el at the positions out
Pick(el, out) == [i \in 1..Len(out) |-> el[out[i]]]

\* the positions of the suppl bucket in declaration order
RECURSIVE listSuppl(_, _)
listSuppl(el, i) ==
  IF i > Len(el) THEN <<>>
  ELSE (IF el[i].Mode = "S" THEN <<i>> ELSE <<>>) \o listSuppl(el, i + 1)

\* EqnList.Sort for given orders of the two maps: [nil, eqns, res], where
\* nil tells that the returned list is the nil pointer
SortWith(tables, el, oInit, oRun) ==
  LET ri == eqnSort(tables, el, InitPos(el), BucketNames(el, RunPos(el)), oInit)
      rr == eqnSort(tables, el, RunPos(el), BucketNames(el, InitPos(el)), oRun)
  IN  IF VariableExists(el) THEN [nil |-> TRUE, eqns |-> <<>>, res |-> "ErrModelVariabeExists"]
      ELSE IF ri.res # Success THEN [nil |-> FALSE, eqns |-> <<>>, res |-> ri.res]
      ELSE IF rr.res # Success THEN [nil |-> FALSE, eqns |-> <<>>, res |-> rr.res]
      ELSE [nil |-> FALSE,
            eqns |-> Pick(el, ri.out) \o Pick(el, rr.out) \o Pick(el, listSuppl(el, 1)),
            res |-> Success]

\* EqnList.Sort: the possible results over the orders of the two maps
Sort(tables, el) ==
  {SortWith(tables, el, oi, or) : oi \in Perms(InitPos(el)), or \in Perms(RunPos(el))}

\* ------------------------------------------------------------------ decks
\* identifiers and statements of the source decks that drive the model
Id(n, i) == [n |-> n, i |-> i, k |-> "var"]

\* a literal of the value v
Lit(v) == [k |-> "lit", v |-> v]

\* the unary minus of x
Neg(x) == [k |-> "neg", x |-> x]

\* the call f(n,p,0,1,1) of a table function on the position p; args are
\* the internal variables NewEquation appends to the arguments
CallAt(f, n, p) == [n |-> n, i |-> "", k |-> "tab", f |-> f, pos |-> p, args |-> <<>>]

\* the call f(n,0,0,1,1)
Call(f, n) == CallAt(f, n, Lit(0))

Tab(n) == Call("TABHL", n)

Bin(op, x, y) == [k |-> "bin", op |-> op, x |-> x, y |-> y]

Par(x) == [k |-> "par", x |-> x]

Frag(t, ops, lit) == [t |-> t, ops |-> ops, lit |-> lit]

Eqn(mode, t, ops, lit) == [mode |-> mode, frags |-> <<Frag(t, ops, lit)>>]

\* a T statement: the name, whether the statement has a "=", and the
\* samples that follow it
Table(n, eq, data) == [mode |-> "T", name |-> n, eq |-> eq, data |-> data]

\* a level with its initializer, a rate on the level, an auxiliary on the
\* level, and a run length of 0.1
DeckRun ==
  { Eqn("L", Id("LV", "K"), <<Id("LV", "J"), Id("RT", "JK")>>, 0),
    Eqn("N", Id("LV", ""), <<>>, 10),
    Eqn("R", Id("RT", "KL"), <<Id("LV", "K")>>, 0),
    Eqn("A", Id("AX", "K"), <<Id("LV", "K")>>, 0),
    Eqn("C", Id("LENGTH", ""), <<>>, 1000) }

\* a rate that reads its own new value, with its initializer, and a rate
\* that reads the name T, which has no equation
DeckSelf ==
  { Eqn("N", Id("RT", ""), <<>>, 0),
    Eqn("R", Id("RT", "KL"), <<Id("RT", "KL")>>, 10),
    Eqn("R", Id("RT", "KL"), <<Id("T", "")>>, 0),
    [mode |-> "SPEC", frags |-> <<Frag(Id("LENGTH", ""), <<>>, 1000)>>] }

\* two auxiliaries in a cycle, an initializer on an auxiliary, a level of
\* the name of an auxiliary, a constant and a rate on it
DeckCycle ==
  { Eqn("A", Id("AX", "K"), <<Id("BX", "K")>>, 0),
    Eqn("A", Id("BX", "K"), <<Id("AX", "K")>>, 0),
    Eqn("N", Id("LV", ""), <<Id("AX", "")>>, 0),
    Eqn("L", Id("AX", "K"), <<Id("AX", "J")>>, 0),
    Eqn("C", Id("CN", ""), <<>>, 10),
    Eqn("R", Id("RT", "KL"), <<Id("CN", "")>>, 0) }

\* a table, an auxiliary that looks it up, a rate on the auxiliary, and a
\* supplement on the rate
DeckTable ==
  { Table("TAB", TRUE, <<10, 20>>),
    Eqn("A", Id("BX", "K"), <<Tab("TAB")>>, 0),
    Eqn("R", Id("RT", "KL"), <<Id("BX", "K")>>, 0),
    Eqn("S", Id("SUP", "K"), <<Id("RT", "JK"), Id("QX", "K")>>, 0),
    [mode |-> "SPEC", frags |-> <<Frag(Id("LENGTH", ""), <<>>, 0)>>] }

\* a level given twice, a constant given again in a multi-assignment and
\* as an initializer
DeckDup ==
  { Eqn("L", Id("LV", "K"), <<Id("LV", "J")>>, 0),
    Eqn("L", Id("LV", "K"), <<Id("LV", "J")>>, 10),
    Eqn("C", Id("CN", ""), <<>>, 10),
    [mode |-> "C", frags |-> <<Frag(Id("DN", ""), <<>>, 20), Frag(Id("CN", ""), <<>>, 30)>>],
    [mode |-> "C", frags |-> <<Frag(Id("CN", ""), <<>>, 30), Frag(Id("DN", "Q"), <<>>, 20)>>],
    Eqn("N", Id("CN", ""), <<>>, 40) }

\* rates with a level target and with an old target, a constant and an
\* auxiliary with a level target, a level with an old target
DeckKind ==
  { Eqn("R", Id("LV", "K"), <<Id("LV", "J"), Id("RT", "JK")>>, 0),
    Eqn("R", Id("RT", "JK"), <<>>, 10),
    Eqn("L", Id("LV", "J"), <<Id("LV", "K")>>, 0),
    Eqn("L", Id("LV", "K"), <<Id("LV", "J")>>, 0),
    Eqn("C", Id("CN", "K"), <<>>, 10),
    Eqn("A", Id("AX", "J"), <<>>, 10) }

\* a constant on a constant, an auxiliary on an initializer, and an
\* auxiliary on an auxiliary
DeckAlt ==
  { Eqn("C", Id("CN", ""), <<>>, 10),
    Eqn("C", Id("DN", ""), <<Id("CN", "")>>, 0),
    Eqn("N", Id("LV", ""), <<>>, 10),
    Eqn("A", Id("AX", "K"), <<Id("LV", "")>>, 0),
    Eqn("A", Id("BX", "K"), <<Id("AX", "K")>>, 0) }

\* tables with two samples, with one sample, with no sample and without
\* a "=", and an auxiliary that looks a table up with TABLE
DeckSmall ==
  { Table("TAB", TRUE, <<10, 20>>),
    Table("TAB", TRUE, <<10>>),
    Table("TAB", TRUE, <<>>),
    Table("TAB", FALSE, <<>>),
    Eqn("A", Id("BX", "K"), <<Call("TABLE", "TAB")>>, 0) }

\* a table and auxiliaries that look it up: with TABLE at the position
\* 20*TIME-1, which is below the range of the table in the first step and
\* above it from the second, with TABHL at the position -5 and at (TIME)
DeckRange ==
  { Table("TAB", TRUE, <<10, 20>>),
    Eqn("A", Id("BX", "K"),
        <<CallAt("TABLE", "TAB", Bin("-", Bin("*", Lit(20 * Unit), Id("TIME", "")), Lit(Unit)))>>, 0),
    Eqn("A", Id("CX", "K"), <<CallAt("TABHL", "TAB", Neg(Lit(5 * Unit)))>>, 0),
    Eqn("A", Id("DX", "K"), <<CallAt("TABHL", "TAB", Par(Id("TIME", "")))>>, 0) }

\* a level that keeps its value, with a time step of 0 and of -0.1
DeckStill ==
  { Eqn("N", Id("LV", ""), <<>>, 10),
    Eqn("L", Id("LV", "K"), <<Id("LV", "J")>>, 0),
    Eqn("C", Id("DT", ""), <<>>, 0),
    [mode |-> "SPEC", frags |-> <<Frag(Id("DT", ""), <<>>, -1000)>>] }

\* a PRINT statement: the labels of its columns
PrintStmt(labels) == [mode |-> "PRINT", labels |-> labels]

\* a run length of 0 and two PRINT statements
DeckPrint ==
  { Eqn("C", Id("LENGTH", ""), <<>>, 0),
    PrintStmt(<<"LENGTH">>),
    PrintStmt(<<"TIME", "DT">>) }

Decks == {DeckRun, DeckSelf, DeckCycle, DeckTable, DeckDup, DeckKind, DeckAlt, DeckSmall, DeckRange,
          DeckStill, DeckPrint}

\* ------------------------------------------------------------------ state
VARIABLES
  deck,     \* the statements of the source deck that is processed
  stmt,     \* the statement AddStatement was called with last
  srt,      \* the last call of Sort: its list, the tables, its result
  RunID,    \* Model.RunID
  Eqns,     \* Model.Eqns: [nil, eqns], nil for the nil pointer
  alias,    \* the run-id whose stacked list Model.Eqns points to, or ""
  Tables,   \* Model.Tables: table name to samples
  Last,     \* Model.Last: the previous state
  Current,  \* Model.Current: the current state
  Stack,    \* Model.Stack: run-id to equation list
  Edit,     \* Model.Edit
  res,      \* the Result of the last statement
  calls,    \* the operations the last RUN statement has executed
  pc,       \* position in Run: idle, AR, LS, done, or panic
  epoch,    \* loop variable epoch of Run
  t,        \* loop variable t of Run
  dt,       \* local dt of Run
  length,   \* local length of Run
  nrun,     \* number of RUN statements processed
  Printer,  \* Model.Print: [file, jobs, add], and out, the jobs the last
            \* Generate has written to the print file
  idx,      \* next position of the equation list that compute looks at
  evald     \* positions of the equations evaluated in the current step

\* the state of main and of the Parse call it makes
VARIABLES
  source,   \* the lines of the source file
  lineNo,   \* local lineNo of Parse: the lines that have been read
  stmtNo,   \* local stmtNo of Parse: the first line of the pending input
  input,    \* local input of Parse: the pending input
  at,       \* where parseInput was called: at a "line" or at "eof"
  ppc,      \* position of main: off, read, add, ret, parsed, or exit
  pres,     \* the Result Parse has returned: [err, Line]
  open      \* the output files that are open

mvars == <<deck, stmt, srt, RunID, Eqns, alias, Tables, Last, Current, Stack, Edit, res,
           calls, pc, nrun, epoch, t, dt, length, idx, evald, autoId, Printer>>

pvars == <<source, lineNo, stmtNo, input, at, ppc, pres, open>>

vars == <<mvars, pvars>>

\* main is running: the model is driven by the lines of a source file, whose
\* length bounds the run, and not by the statements of a deck
InMain == ppc # "off"

\* a bound on the exploration of the statements of a deck
Bounded(n, max) == InMain \/ n <= max

runvars == <<epoch, t, dt, length, idx, evald>>

\* the locals of Run are gone when Run has returned
RunReturns ==
  /\ epoch' = 0
  /\ t' = 0
  /\ dt' = 0
  /\ length' = 0
  /\ idx' = 0
  /\ evald' = <<>>

\* the empty State and the empty maps
Empty == [x \in {} |-> 0]

\* no input is pending
NoInput == [k |-> "none"]

\* Parse has not returned
NoResult == [err |-> "", Line |-> 0]

\* ---------------------------------------------------------------- Printer
\* NewPrinter: file tells whether a print file is defined
NewPrinter(file) == [file |-> file, jobs |-> <<>>, add |-> TRUE, out |-> <<>>]

\* Printer.Reset: the jobs stay until the next PRINT statement
Reset(prt) == [prt EXCEPT !.add = FALSE]

\* Printer.Prepare for a statement with one column group: the labels of
\* the statement are the columns of a new job
Prepare(prt, labels) ==
  [prt EXCEPT !.jobs = Append(IF prt.add THEN @ ELSE <<>>, labels), !.add = TRUE]

\* Printer.vars: TIME and the labels of the jobs
PrintVars(prt) == IF prt.jobs = <<>> THEN {} ELSE {"TIME"} \cup UNION {Range(prt.jobs[j]) : j \in DOMAIN prt.jobs}

\* Printer.Add: the result of sampling the state cur
Add(prt, cur) ==
  IF prt.file /\ ~(PrintVars(prt) \subseteq DOMAIN cur) THEN "ErrModelNoVariable" ELSE Success

\* Printer.print: the jobs that are written; the loop over the jobs
\* returns with the result of the first one
print(prt) == IF prt.jobs = <<>> THEN <<>> ELSE <<prt.jobs[1]>>

\* Printer.Generate
Generate(prt) == [prt EXCEPT !.out = IF prt.file THEN print(prt) ELSE <<>>]

\* NewModel
NewModelState ==
  /\ stmt = [mode |-> ""]
  /\ srt = [called |-> FALSE]
  /\ RunID = ""
  /\ Eqns = [nil |-> FALSE, eqns |-> <<>>]
  /\ alias = ""
  /\ Tables = Empty
  /\ Last = Empty
  /\ Current = Empty
  /\ Stack = Empty
  /\ Edit = FALSE
  /\ res = Success
  /\ calls = <<>>
  /\ pc = "idle"
  /\ nrun = 0
  /\ epoch = 0
  /\ t = 0
  /\ dt = 0
  /\ length = 0
  /\ idx = 0
  /\ evald = <<>>
  /\ autoId = 0

\* a model that is driven with the statements of a deck in any order
Init ==
  /\ deck \in Decks
  /\ NewModelState
  /\ Printer = NewPrinter(\E st \in deck : st.mode = "PRINT")
  /\ source = <<>>
  /\ lineNo = 0
  /\ stmtNo = 0
  /\ input = NoInput
  /\ at = ""
  /\ ppc = "off"
  /\ pres = NoResult
  /\ open = {}

\* ------------------------------------------------------------- evaluation
\* Model.Get as it would be if every stage read the current state
GetCurrent(name, cur, last) ==
  IF name.Name \in DOMAIN cur THEN [val |-> cur[name.Name], res |-> Success]
  ELSE [val |-> 0, res |-> "ErrModelNoVariable"]

\* Model.Get: stage NONE and NEW read the current, stage OLD the last state
Get(name, cur, last) ==
  IF name.Stage = NAME_STAGE_OLD
    THEN IF name.Name \in DOMAIN last THEN [val |-> last[name.Name], res |-> Success]
         ELSE [val |-> 0, res |-> "ErrModelNoVariable"]
    ELSE IF name.Name \in DOMAIN cur THEN [val |-> cur[name.Name], res |-> Success]
         ELSE [val |-> 0, res |-> "ErrModelNoVariable"]

\* Model.Set: always writes the current state
Set(name, val, cur) == [n \in DOMAIN cur \cup {name.Name} |-> IF n = name.Name THEN val ELSE cur[n]]

\* the digits "%f" writes after the decimal point, as a power of ten
Micro == 1000000

\* Variable.String: the text of a value, a number of millionths
Sprintf(v) == [k |-> "num", v |-> v * (Micro \div Unit)]

\* strconv.ParseFloat: the value of a text that is a number
ParseFloat(text) ==
  IF text.k = "num" THEN [val |-> text.v \div (Micro \div Unit), res |-> Success]
  ELSE [val |-> 0, res |-> "ErrSyntax"]

\* resolve for a text that is no number: the value of the variable of
\* the name nn the text has been parsed to
named(nn, cur, last) ==
  IF nn.res = Success THEN Get(nn.name, cur, last) ELSE [val |-> 0, res |-> nn.res]

\* resolve: the value of a number text, or of the variable the text names
resolve(text, cur, last) ==
  IF ParseFloat(text).res = Success THEN ParseFloat(text)
  ELSE named(NewNameFromString(text), cur, last)

\* the region of a position of a table with a last index of n: -1 below,
\* 0 inside, 1 above
Region(pos, n) == IF pos < 0 THEN -1 ELSE IF pos >= n * Unit THEN 1 ELSE 0

\* the range check of table: the tracker state after a lookup in the region
\* rg when the tracker state was state
rangeCheck(state, rg) ==
  IF rg # 0 /\ state # -1 THEN rg
  ELSE IF rg = 0 /\ state # 0 THEN 0
  ELSE state

\* int(region): the stored tracker state as an integer
int(v) == IF v < 0 THEN -((-v) \div Unit) ELSE v \div Unit

\* table: the tracker name is read from and written to the current state,
\* rg is the region of the position that is looked up
track(name, rg, cur) ==
  Set([Name |-> name], rangeCheck(IF name \in DOMAIN cur THEN int(cur[name]) ELSE 0, rg) * Unit, cur)

\* table (mode 0): the sample of the two samples data at the position p
\* of the region rg, the first sample below and the last sample above
sample(data, p, rg) ==
  CASE rg < 0 -> data[1]
    [] rg > 0 -> data[2]
    [] OTHER  -> ((data[2] - data[1]) * p) \div Unit + data[1]

\* table after the table has been found and the position resolved to pos
lookup(data, pos, args, cur) ==
  IF pos.res # Success THEN [val |-> 0, res |-> pos.res, cur |-> cur]
  ELSE IF Len(data) # 2 THEN [val |-> 0, res |-> "ErrModelWrongTableSize", cur |-> cur]
  ELSE [val |-> sample(data, pos.val, Region(pos.val, 1)),
        res |-> Success,
        cur |-> IF Len(args) = 1 THEN track(args[1], Region(pos.val, 1), cur) ELSE cur]

\* table (mode 0) for the arguments (n,x,0,1,1) and the internal
\* variables args, x being the text of the position: the sample at the
\* position, the first sample below and the last sample above the range;
\* with a sixth argument the tracker state is read from and written to
\* the current state under that name
table(n, x, args, tables, cur, last) ==
  IF n \notin DOMAIN tables THEN [val |-> 0, res |-> "ErrModelNoSuchTable", cur |-> cur]
  ELSE lookup(tables[n], resolve(x, cur, last), args, cur)

\* the operators of a binary expression as they would be if a product
\* were rounded down to a whole number
binaryWhole(op, left, right) ==
  CASE op = "+" -> left + right
    [] op = "-" -> left - right
    [] op = "*" -> ((left * right) \div (Unit * Unit)) * Unit

\* the operators of a binary expression; the quotient is not used by the
\* modelled decks
binary(op, left, right) ==
  CASE op = "+" -> left + right
    [] op = "-" -> left - right
    [] op = "*" -> (left * right) \div Unit

\* the expression eval evaluates for the argument a of a call
Nested(a) == IF a.k = "neg" THEN a.x ELSE a

\* eval, the text of an identifier with an index that has been parsed to nn
indexed(nn, cur) ==
  [text |-> [k |-> "id", n |-> (IF nn.res = Success THEN nn.name.Name \o GetIndex(nn.name) ELSE ""), i |-> ""],
   res |-> nn.res, cur |-> cur]

\* eval, the conversion of an argument of a call to a text: an identifier
\* to its name with the index appended, a literal to itself, a binary
\* expression and an expression in parentheses to the text of its value v;
\* a unary minus is evaluated, its failure is not returned and its text
\* stays empty
arg(a, v, cur) ==
  CASE a.k = "var" /\ a.i = "" -> [text |-> [k |-> "id", n |-> a.n, i |-> ""], res |-> Success, cur |-> cur]
    [] a.k = "var" -> indexed(NewName(a), cur)
    [] a.k = "lit" -> [text |-> Sprintf(a.v), res |-> Success, cur |-> cur]
    [] a.k \in {"bin", "par"} -> [text |-> Sprintf(v.val), res |-> v.res, cur |-> v.cur]
    [] a.k = "neg" -> [text |-> [k |-> "id", n |-> "", i |-> ""], res |-> Success, cur |-> v.cur]
    [] OTHER -> [text |-> [k |-> "id", n |-> "", i |-> ""], res |-> "ErrModelFunctionArg", cur |-> cur]

\* CallFunction for a table function and the argument text a
call(x, a, tables, last) ==
  IF a.res # Success THEN [val |-> 0, res |-> a.res, cur |-> a.cur]
  ELSE table(x.n, a.text, x.args, tables, a.cur, last)

\* eval of one operand: both sides of a binary expression are evaluated,
\* the left side first, the first failure is the result
RECURSIVE term(_, _, _, _)
term(x, tables, cur, last) ==
  CASE x.k = "tab" ->
         call(x, arg(x.pos,
                     IF x.pos.k \in {"bin", "par", "neg"} THEN term(Nested(x.pos), tables, cur, last)
                     ELSE [val |-> 0, res |-> Success, cur |-> cur],
                     cur), tables, last)
    [] x.k = "par" -> term(x.x, tables, cur, last)
    [] x.k = "lit" -> [val |-> x.v, res |-> Success, cur |-> cur]
    [] x.k = "neg" ->
         LET v == term(x.x, tables, cur, last)
         IN  IF v.res # Success THEN v ELSE [v EXCEPT !.val = -v.val]
    [] x.k = "bin" ->
         LET left == term(x.x, tables, cur, last)
             right == term(x.y, tables, left.cur, last)
         IN  IF left.res # Success THEN left
             ELSE IF right.res # Success THEN right
             ELSE [val |-> binary(x.op, left.val, right.val), res |-> Success, cur |-> right.cur]
    [] OTHER -> LET g == Get(NewName(x).name, cur, last)
                IN  [val |-> g.val, res |-> g.res, cur |-> cur]

\* eval: the operands are evaluated from left to right, the first failure
\* is the result; [val, res, cur], cur is the current state as the calls
\* have left it
RECURSIVE eval(_, _, _, _, _)

\* eval after the first operand has been evaluated to v
evalRest(v, ops, acc, tables, last) ==
  IF v.res # Success THEN v ELSE eval(ops, acc + v.val, tables, v.cur, last)

eval(ops, acc, tables, cur, last) ==
  IF ops = <<>> THEN [val |-> acc, res |-> Success, cur |-> cur]
  ELSE evalRest(term(Head(ops), tables, cur, last), Tail(ops), acc, tables, last)

\* Equation.Eval after the formula has been evaluated to v: the value is
\* set for the target
assign(target, v) ==
  IF v.res # Success THEN [cur |-> v.cur, res |-> v.res]
  ELSE [cur |-> Set(target, v.val, v.cur), res |-> Success]

\* Equation.Eval: [cur, res], the current state after the evaluation
Eval(eqn, tables, cur, last) == assign(eqn.Target, eval(eqn.Formula.ops, eqn.Formula.lit, tables, cur, last))

\* the compute closure of Run over a whole list: [cur, res]
RECURSIVE compute(_, _, _, _, _)

\* compute after the first equation has been evaluated with the result r
computeRest(r, modes, eqns, tables, last) ==
  IF r.res # Success THEN r ELSE compute(modes, eqns, tables, r.cur, last)

compute(modes, eqns, tables, cur, last) ==
  IF eqns = <<>> THEN [cur |-> cur, res |-> Success]
  ELSE IF Head(eqns).Mode \in modes
    THEN computeRest(Eval(Head(eqns), tables, cur, last), modes, Tail(eqns), tables, last)
    ELSE compute(modes, Tail(eqns), tables, cur, last)

\* the split of Run: the number of equations up to the last C or N equation
split(el) ==
  IF InitPos(el) = {} THEN 0 ELSE CHOOSE i \in InitPos(el) : \A j \in InitPos(el) : j <= i

\* setDef of Run: the defaults of the system variables that are not defined
setDef(name, val, cur) == IF name \in DOMAIN cur THEN cur ELSE Set([Name |-> name], val, cur)

setDefs(cur) ==
  setDef("PLTPER", DefPLTPER, setDef("PRTPER", DefPRTPER,
    setDef("LENGTH", DefLENGTH, setDef("DT", DefDT, setDef("TIME", DefTIME, cur)))))

\* the next position at or after i of an equation with a mode of modes, or 0
next(el, i, modes) ==
  IF \E j \in i..Len(el) : el[j].Mode \in modes
    THEN CHOOSE j \in i..Len(el) : el[j].Mode \in modes /\ \A k \in i..(j - 1) : el[k].Mode \notin modes
    ELSE 0

\* ----------------------------------------------------------- AddStatement
\* the equation loop of AddStatement: [list, res]
RECURSIVE addLoop(_, _, _, _, _, _)
addLoop(tables, eqns, i, list, r, edit) ==
  IF i > Len(eqns) THEN [list |-> list, res |-> r]
  ELSE LET v == validateEqn(tables, eqns[i], NilList)
       IN  IF v # Success THEN [list |-> list, res |-> v]
           ELSE IF Contains(list, eqns[i])
             THEN addLoop(tables, eqns, i + 1, Replace(list, eqns[i]),
                          IF ~edit THEN "ErrModelEqnOverwrite" ELSE v, edit)
             ELSE addLoop(tables, eqns, i + 1, Append(list, eqns[i]), v, edit)

\* the SPEC loop of AddStatement: every definition is added as a C equation
\* before its value is parsed as a number
RECURSIVE specLoopAt(_, _, _)
specLoopAt(frags, list, id) ==
  IF frags = <<>> THEN [list |-> list, res |-> Success, id |-> id]
  ELSE LET r == NewEquationAt("C", Head(frags), id)
       IN  IF r.res # Success THEN [list |-> list, res |-> r.res, id |-> r.id]
           ELSE IF Head(frags).ops # <<>>
             THEN [list |-> list \o r.eqns, res |-> "ErrParseFloat", id |-> r.id]
           ELSE specLoopAt(Tail(frags), list \o r.eqns, r.id)

specLoop(frags, list) == specLoopAt(frags, list, autoId)

\* a write to the list Model.Eqns points to is a write to the stacked list
\* it is an alias of
Stacked(list) == IF alias = "" THEN Stack ELSE [Stack EXCEPT ![alias] = list]

\* modes L, R, C, N, A, S
AddEquationOf(st) ==
  /\ pc = "idle"
  /\ ~Eqns.nil
  /\ st.mode \in {"L", "R", "C", "N", "A", "S"}
  /\ stmt' = st
  /\ LET ne == NewEquation(st)
         lr == addLoop(Tables, ne.eqns, 1, Eqns.eqns, ne.res, Edit)
     IN  /\ Bounded(ne.id, MaxAuto)
         /\ autoId' = ne.id
         /\ IF ne.res # Success
              THEN /\ res' = ne.res
                   /\ UNCHANGED <<Eqns, Stack>>
              ELSE /\ Bounded(Len(lr.list), MaxLen)
                   /\ res' = lr.res
                   /\ Eqns' = [Eqns EXCEPT !.eqns = lr.list]
                   /\ Stack' = Stacked(lr.list)
  /\ srt' = [called |-> FALSE]
  /\ calls' = <<>>
  /\ UNCHANGED <<Printer, deck, RunID, alias, Tables, Last, Current, Edit, pc, nrun, runvars>>

AddEquation == \E st \in deck : AddEquationOf(st) /\ UNCHANGED pvars

\* mode SPEC
AddSpecOf(st) ==
  /\ pc = "idle"
  /\ ~Eqns.nil
  /\ st.mode = "SPEC"
  /\ stmt' = st
  /\ LET sr == specLoop(st.frags, Eqns.eqns)
     IN  /\ Bounded(Len(sr.list), MaxLen)
         /\ Bounded(sr.id, MaxAuto)
         /\ autoId' = sr.id
         /\ res' = sr.res
         /\ Eqns' = [Eqns EXCEPT !.eqns = sr.list]
         /\ Stack' = Stacked(sr.list)
  /\ srt' = [called |-> FALSE]
  /\ calls' = <<>>
  /\ UNCHANGED <<Printer, deck, RunID, alias, Tables, Last, Current, Edit, pc, nrun, runvars>>

AddSpec == \E st \in deck : AddSpecOf(st) /\ UNCHANGED pvars

\* strings.Split(vals, ","): the number of parts of the text behind the
\* "=", one part (the empty text) when no sample is given
numParts(data) == IF data = <<>> THEN 1 ELSE Len(data)

\* mode T: without a "=" the read of tab[1] is out of range and ends the
\* program; NewTable rejects a list of less than two parts
AddTableOf(st) ==
  /\ pc = "idle"
  /\ st.mode = "T"
  /\ stmt' = st
  /\ IF ~st.eq
       THEN /\ pc' = "panic"
            /\ UNCHANGED <<res, Tables>>
       ELSE IF numParts(st.data) < 2
         THEN /\ res' = "ErrParseTableTooSmall"
              /\ UNCHANGED <<Tables, pc>>
         ELSE /\ res' = Success
              /\ Tables' = [n \in DOMAIN Tables \cup {st.name} |->
                              IF n = st.name THEN st.data ELSE Tables[n]]
              /\ UNCHANGED pc
  /\ srt' = [called |-> FALSE]
  /\ calls' = <<>>
  /\ UNCHANGED <<autoId, Printer, deck, RunID, Eqns, alias, Last, Current, Stack, Edit, nrun, runvars>>

AddTable == \E st \in deck : AddTableOf(st) /\ UNCHANGED pvars

\* the modes of the dispatcher
Modes == {"*", "NOTE", "L", "R", "C", "N", "A", "S", "T", "SPEC", "PRINT", "PLOT", "RUN", "EDIT"}

\* a mode the dispatcher does not know
AddInvalidModeOf(st) ==
  /\ pc = "idle"
  /\ st.mode \notin Modes
  /\ stmt' = st
  /\ res' = "ErrParseInvalidMode"
  /\ srt' = [called |-> FALSE]
  /\ calls' = <<>>
  /\ UNCHANGED <<autoId, Printer, deck, RunID, Eqns, alias, Tables, Last, Current, Stack, Edit, pc, nrun, runvars>>

AddInvalidMode == AddInvalidModeOf([mode |-> "Y"]) /\ UNCHANGED pvars

\* mode PRINT: the statement is given to the printer
AddPrintOf(st) ==
  /\ pc = "idle"
  /\ st.mode = "PRINT"
  /\ Bounded(Len(Prepare(Printer, st.labels).jobs), MaxJobs)
  /\ stmt' = st
  /\ Printer' = Prepare(Printer, st.labels)
  /\ res' = Success
  /\ srt' = [called |-> FALSE]
  /\ calls' = <<>>
  /\ UNCHANGED <<autoId, deck, RunID, Eqns, alias, Tables, Last, Current, Stack, Edit, pc, nrun, runvars>>

AddPrint == \E st \in deck : AddPrintOf(st) /\ UNCHANGED pvars

\* mode EDIT
AddEditOf(id) ==
  /\ pc = "idle"
  /\ stmt' = [mode |-> "EDIT", id |-> id]
  /\ IF id \notin DOMAIN Stack
       THEN /\ res' = "ErrModelNotAvailable"
            /\ UNCHANGED <<Eqns, alias, Edit, Last, Current, Printer>>
       ELSE /\ res' = Success
            /\ Printer' = Reset(Printer)
            /\ Eqns' = [nil |-> FALSE, eqns |-> Stack[id]]
            /\ alias' = id
            /\ Edit' = TRUE
            /\ Last' = Empty
            /\ Current' = Empty
  /\ srt' = [called |-> FALSE]
  /\ calls' = <<>>
  /\ UNCHANGED <<autoId, deck, RunID, Tables, Stack, pc, nrun, runvars>>

AddEdit == \E id \in EditIds : AddEditOf(id) /\ UNCHANGED pvars

\* an equation, SPEC or RUN statement after Sort has returned the nil list:
\* the method call on the nil pointer ends the program
Panic ==
  /\ pc = "idle"
  /\ Eqns.nil
  /\ pc' = "panic"
  /\ UNCHANGED pvars
  /\ UNCHANGED <<autoId, Printer, deck, stmt, srt, RunID, Eqns, alias, Tables, Last, Current, Stack, Edit, res, calls, nrun, runvars>>

\* -------------------------------------------------------------------- Run
\* the loop of Run as it would be if a step began with the levels
LoopHeadLevels(tt, len) == IF tt <= len THEN "LS" ELSE "done"

\* the loop condition of Run decides where the statement goes on
LoopHead(tt, len) == IF tt <= len THEN "AR" ELSE "done"

\* mode RUN up to the first epoch: Edit is cleared, the run-id is set, the
\* list is sorted (the result replaces Model.Eqns whatever it is) and
\* validated, the init equations are computed, the defaults are set, the
\* sinks are started
RunBeginOf(id) ==
  /\ pc = "idle"
  /\ ~Eqns.nil
  /\ Bounded(nrun + 1, MaxRuns)
  /\ nrun' = nrun + 1
  /\ stmt' = [mode |-> "RUN", id |-> id]
  /\ \E s \in Sort(Tables, Eqns.eqns) :
       LET v == Validate(Tables, s.eqns)
           sp == split(s.eqns)
           ini == compute({"C", "N", "R", "A"}, SubSeq(s.eqns, 1, sp), Tables, Current, Last)
           cur == setDefs(ini.cur)
       IN  /\ srt' = [called |-> TRUE, el |-> Eqns.eqns, tables |-> Tables, out |-> s]
           /\ Edit' = FALSE
           /\ RunID' = id
           /\ Eqns' = [nil |-> s.nil, eqns |-> s.eqns]
           /\ alias' = ""
           /\ calls' = <<"Run">>
           /\ IF s.res # Success
                THEN /\ res' = s.res
                     /\ UNCHANGED <<Current, pc, runvars>>
                ELSE IF v # Success
                  THEN /\ res' = v
                       /\ UNCHANGED <<Current, pc, runvars>>
                ELSE IF ini.res # Success
                  THEN /\ res' = ini.res
                       /\ Current' = ini.cur
                       /\ UNCHANGED <<pc, runvars>>
                ELSE /\ res' = Success
                     /\ Current' = cur
                     /\ epoch' = 1
                     /\ t' = cur["TIME"]
                     /\ dt' = cur["DT"]
                     /\ length' = cur["LENGTH"]
                     /\ pc' = LoopHead(cur["TIME"], cur["LENGTH"])
                     /\ idx' = sp + 1
                     /\ evald' = <<>>
  /\ UNCHANGED <<autoId, Printer, deck, Tables, Last, Stack>>

RunBegin == \E id \in RunIds : RunBeginOf(id) /\ UNCHANGED pvars

\* a step of compute in the loop of Run for the equation at position j
\* whose evaluation has the result r: a failure ends the run
Computed(j, r) ==
  IF r.res # Success
    THEN /\ res' = r.res
         /\ pc' = "idle"
         /\ RunReturns
         /\ UNCHANGED Current
    ELSE /\ Current' = r.cur
         /\ idx' = j + 1
         /\ evald' = Append(evald, j)
         /\ UNCHANGED <<res, pc, epoch, t, dt, length>>

\* the equation at position j is evaluated
Evaluated(j) == Computed(j, Eval(Eqns.eqns[j], Tables, Current, Last))

\* compute("AR", runEqns): the next A or R equation is evaluated
EvalAR ==
  /\ pc = "AR"
  /\ next(Eqns.eqns, idx, {"A", "R"}) # 0
  /\ Evaluated(next(Eqns.eqns, idx, {"A", "R"}))
  /\ UNCHANGED pvars
  /\ UNCHANGED <<autoId, Printer, deck, stmt, srt, RunID, Eqns, alias, Tables, Last, Stack, Edit, calls, nrun>>

\* the state is propagated: the current state is copied to the last state
Propagate ==
  /\ pc = "AR"
  /\ next(Eqns.eqns, idx, {"A", "R"}) = 0
  /\ Last' = Current
  /\ pc' = "LS"
  /\ idx' = split(Eqns.eqns) + 1
  /\ UNCHANGED pvars
  /\ UNCHANGED <<autoId, Printer, deck, stmt, srt, RunID, Eqns, alias, Tables, Current, Stack, Edit, res, calls, nrun,
                 epoch, t, dt, length, evald>>

\* compute("LS", runEqns): the next L or S equation is evaluated
EvalLS ==
  /\ pc = "LS"
  /\ next(Eqns.eqns, idx, {"L", "S"}) # 0
  /\ Evaluated(next(Eqns.eqns, idx, {"L", "S"}))
  /\ UNCHANGED pvars
  /\ UNCHANGED <<autoId, Printer, deck, stmt, srt, RunID, Eqns, alias, Tables, Last, Stack, Edit, calls, nrun>>

\* the end of a step: the sinks sample the state, TIME is advanced, and the
\* loop goes to its next epoch or ends
Advance ==
  /\ pc = "LS"
  /\ next(Eqns.eqns, idx, {"L", "S"}) = 0
  /\ t + dt > length \/ Bounded(epoch + 1, MaxEpoch)
  /\ IF Add(Printer, Current) # Success
       THEN /\ res' = Add(Printer, Current)
            /\ pc' = "idle"
            /\ RunReturns
            /\ UNCHANGED Current
       ELSE /\ Current' = [Current EXCEPT !["TIME"] = Current["TIME"] + Current["DT"]]
            /\ epoch' = epoch + 1
            /\ t' = t + dt
            /\ pc' = LoopHead(t + dt, length)
            /\ idx' = split(Eqns.eqns) + 1
            /\ evald' = <<>>
            /\ UNCHANGED <<res, dt, length>>
  /\ UNCHANGED pvars
  /\ UNCHANGED <<autoId, Printer, deck, stmt, srt, RunID, Eqns, alias, Tables, Last, Stack, Edit, calls, nrun>>

\* mode RUN after a successful Run as it would be without the stacking of
\* the equation list
RunEndNoStack ==
  /\ pc = "done"
  /\ res' = Success
  /\ calls' = Append(calls, "Output")
  /\ pc' = "idle"
  /\ RunReturns
  /\ UNCHANGED pvars
  /\ Printer' = Generate(Printer)
  /\ UNCHANGED <<autoId, deck, stmt, srt, RunID, Eqns, alias, Tables, Last, Current, Stack, Edit, nrun>>

\* mode RUN after a successful Run: Output, then a clone of the equation
\* list is stacked under the run-id
RunEnd ==
  /\ pc = "done"
  /\ res' = Success
  /\ calls' = Append(calls, "Output")
  /\ Stack' = [id \in DOMAIN Stack \cup {RunID} |-> IF id = RunID THEN Eqns.eqns ELSE Stack[id]]
  /\ pc' = "idle"
  /\ RunReturns
  /\ UNCHANGED pvars
  /\ Printer' = Generate(Printer)
  /\ UNCHANGED <<autoId, deck, stmt, srt, RunID, Eqns, alias, Tables, Last, Current, Edit, nrun>>

Next ==
  \/ AddEquation
  \/ AddSpec
  \/ AddTable
  \/ AddInvalidMode
  \/ AddPrint
  \/ AddEdit
  \/ Panic
  \/ RunBegin
  \/ EvalAR
  \/ Propagate
  \/ EvalLS
  \/ Advance
  \/ RunEnd

Spec == Init /\ [][Next]_vars

\* the runs of the decks with a level: Run is sequential code, once the loop
\* is entered each of its steps is taken when it is the next one
InitFair == Init /\ deck \in {DeckRun, DeckStill}

NextFair ==
  \/ AddEquation
  \/ AddSpec
  \/ RunBegin
  \/ EvalAR
  \/ Propagate
  \/ EvalLS
  \/ Advance
  \/ RunEnd

SpecFair ==
  /\ InitFair
  /\ [][NextFair]_vars
  /\ WF_vars(EvalAR)
  /\ WF_vars(Propagate)
  /\ WF_vars(EvalLS)
  /\ WF_vars(Advance)

\* =================================================================== main
\* ---------------------------------------------------------------- sources
\* the lines of a source file: a line with a mode and a statement, a line
\* without a space, a continuation line ("X" and operands that go on the
\* right side of the pending statement), and an empty line
Ln(st) == [k |-> "stmt", st |-> st]

Bare == [k |-> "bare"]

Cont(ops) == [k |-> "cont", ops |-> ops]

Blank == [k |-> "blank"]

Run(id) == [mode |-> "RUN", id |-> id]

\* the coffee model: a level that cools down to the temperature of the
\* room, run for LENGTH=10 with DT=1
SrcCoffee ==
  << Ln(Eqn("L", Id("COFFEE", "K"),
            <<Id("COFFEE", "J"), Bin("*", Id("DT", ""), Id("CHNG", "JK"))>>, 0)),
     Ln(Eqn("R", Id("CHNG", "KL"),
            <<Bin("*", Id("CONST", ""), Par(Bin("-", Id("ROOM", ""), Id("COFFEE", "K"))))>>, 0)),
     Ln(Eqn("C", Id("CONST", ""), <<>>, 2000)),
     Ln(Eqn("C", Id("ROOM", ""), <<>>, 200000)),
     Ln(Eqn("N", Id("COFFEE", ""), <<>>, 900000)),
     Ln([mode |-> "SPEC", frags |-> <<Frag(Id("DT", ""), <<>>, 10000),
                                      Frag(Id("LENGTH", ""), <<>>, 100000),
                                      Frag(Id("PRTPER", ""), <<>>, 10000)>>]),
     Ln(Run("R1")) >>

\* a statement with a mode the dispatcher does not know, and a rate
SrcBadMode ==
  << Ln([mode |-> "Y", frags |-> <<Frag(Id("INV", "K"), <<Id("INV", "J")>>, 0)>>]),
     Ln(Eqn("R", Id("CHNG", "KL"), <<>>, 0)) >>

\* an equation without a mode, and a rate
SrcNoMode ==
  << Bare,
     Ln(Eqn("R", Id("CHNG", "KL"), <<>>, 0)) >>

\* a level that is given twice
SrcOverwrite ==
  << Ln(Eqn("L", Id("INV", "K"), <<Id("INV", "J"), Bin("*", Id("DT", ""), Id("CHNG", "JK"))>>, 0)),
     Ln(Eqn("L", Id("INV", "K"), <<Bin("*", Id("CONST", ""), Id("INV", "J"))>>, 0)) >>

\* a level with an old target that goes on in a continuation line, between
\* a constant and a rate
SrcMiddle ==
  << Ln(Eqn("C", Id("CN", ""), <<>>, 10000)),
     Ln(Eqn("L", Id("LV", "J"), <<Id("LV", "K")>>, 0)),
     Cont(<<Bin("*", Id("DT", ""), Id("RT", "JK"))>>),
     Blank,
     Ln(Eqn("R", Id("RT", "KL"), <<>>, 0)) >>

\* two auxiliaries in a cycle, and a run
SrcCycle ==
  << Ln(Eqn("A", Id("AX", "K"), <<Id("BX", "K")>>, 0)),
     Ln(Eqn("A", Id("BX", "K"), <<Id("AX", "K")>>, 0)),
     Ln(Run("R1")) >>

\* a table and an auxiliary that looks it up, run for one step, and a
\* table with one sample after the run
SrcTable ==
  << Ln(Table("TAB", TRUE, <<10000, 20000>>)),
     Ln(Eqn("A", Id("BX", "K"), <<Call("TABLE", "TAB")>>, 0)),
     Cont(<<Id("TIME", "K")>>),
     Ln([mode |-> "SPEC", frags |-> <<Frag(Id("DT", ""), <<>>, 10000),
                                      Frag(Id("LENGTH", ""), <<>>, 0)>>]),
     Ln(Run("R1")),
     Ln(Table("TAB", TRUE, <<10000>>)),
     Ln(Eqn("C", Id("CN", ""), <<>>, 10000)) >>

Sources == {SrcCoffee, SrcBadMode, SrcNoMode, SrcOverwrite, SrcMiddle, SrcCycle, SrcTable}

\* the sinks that may have an output file
Sinks == {"Dbg", "Print", "Plot"}

\* SetDebugger, NewModel, and Parse before its first line: the sinks whose
\* file name is given have created their file
InitMain ==
  /\ source \in Sources
  /\ deck = {source[i].st : i \in {j \in DOMAIN source : source[j].k = "stmt"}}
  /\ NewModelState
  /\ lineNo = 0
  /\ stmtNo = 0
  /\ input = NoInput
  /\ at = ""
  /\ ppc = "read"
  /\ pres = NoResult
  /\ open \in SUBSET Sinks
  /\ Printer = NewPrinter("Print" \in open)

\* ------------------------------------------------------------------ Parse
\* input += strings.TrimSpace(line[1:]): the text goes on the right side of
\* the pending statement; without a pending statement it is text without
\* a space
extend(inp, line) ==
  IF inp.k = "stmt"
    THEN [inp EXCEPT !.st.frags[Len(inp.st.frags)].ops = @ \o line.ops]
    ELSE Bare

\* one turn of the loop of Parse up to the call of AddStatement: a line is
\* read and counted; an empty line is skipped, a continuation line is
\* appended to the input; any other line and the end of the file call
\* parseInput, which returns Success for an input that is empty or has no
\* space and calls AddStatement for any other
ReadLine ==
  /\ ppc = "read"
  /\ lineNo' = lineNo + 1
  /\ LET eof == lineNo + 1 > Len(source)
         line == source[lineNo + 1]
     IN  IF ~eof /\ line.k = "blank"
           THEN UNCHANGED <<stmtNo, input, at, ppc, pres>>
         ELSE IF ~eof /\ line.k = "cont"
           THEN /\ input' = extend(input, line)
                /\ UNCHANGED <<stmtNo, at, ppc, pres>>
         ELSE IF input.k = "stmt"
           THEN /\ at' = IF eof THEN "eof" ELSE "line"
                /\ ppc' = "add"
                /\ UNCHANGED <<stmtNo, input, pres>>
         ELSE IF eof
           THEN /\ input' = NoInput
                /\ pres' = [err |-> Success, Line |-> 0]
                /\ ppc' = "parsed"
                /\ UNCHANGED <<stmtNo, at>>
         ELSE /\ input' = line
              /\ stmtNo' = lineNo + 1
              /\ UNCHANGED <<at, ppc, pres>>
  /\ UNCHANGED <<source, open>>
  /\ UNCHANGED mvars

\* parseInput calls AddStatement with the pending statement
ParseEquation ==
  /\ ppc = "add"
  /\ AddEquationOf(input.st)
  /\ ppc' = "ret"
  /\ UNCHANGED <<source, lineNo, stmtNo, input, at, pres, open>>

ParseSpec ==
  /\ ppc = "add"
  /\ AddSpecOf(input.st)
  /\ ppc' = "ret"
  /\ UNCHANGED <<source, lineNo, stmtNo, input, at, pres, open>>

ParseTable ==
  /\ ppc = "add"
  /\ AddTableOf(input.st)
  /\ ppc' = "ret"
  /\ UNCHANGED <<source, lineNo, stmtNo, input, at, pres, open>>

ParseRun ==
  /\ ppc = "add"
  /\ input.st.mode = "RUN"
  /\ RunBeginOf(input.st.id)
  /\ ppc' = "ret"
  /\ UNCHANGED <<source, lineNo, stmtNo, input, at, pres, open>>

ParseInvalidMode ==
  /\ ppc = "add"
  /\ AddInvalidModeOf(input.st)
  /\ ppc' = "ret"
  /\ UNCHANGED <<source, lineNo, stmtNo, input, at, pres, open>>

\* AddStatement has returned: parseInput sets the Line of the Result to
\* stmtNo and clears the input. At the end of the file Parse returns this
\* Result. At a line a failure leaves the loop and the Line is set to
\* lineNo; after a success the line is the pending input and stmtNo is its
\* number
Return ==
  /\ ppc = "ret"
  /\ pc = "idle"
  /\ IF at = "eof"
       THEN /\ pres' = [err |-> res, Line |-> stmtNo]
            /\ ppc' = "parsed"
            /\ input' = NoInput
            /\ UNCHANGED stmtNo
       ELSE IF res # Success
         THEN /\ pres' = [err |-> res, Line |-> lineNo]
              /\ ppc' = "parsed"
              /\ input' = NoInput
              /\ UNCHANGED stmtNo
         ELSE /\ input' = source[lineNo]
              /\ stmtNo' = lineNo
              /\ ppc' = "read"
              /\ UNCHANGED pres
  /\ UNCHANGED <<source, lineNo, at, open>>
  /\ UNCHANGED mvars

\* ------------------------------------------------------------------- main
\* Parse has succeeded: Quit closes the debugger, the printer and the
\* plotter; a printer whose Close fails ends Quit before the plotter is
\* closed
Quit ==
  /\ ppc = "parsed"
  /\ pres.err = Success
  /\ \E perr \in BOOLEAN :
       /\ perr => "Print" \in open
       /\ open' = IF perr THEN open \ {"Dbg", "Print"} ELSE {}
  /\ ppc' = "exit"
  /\ UNCHANGED <<source, lineNo, stmtNo, input, at, pres>>
  /\ UNCHANGED mvars

\* Parse has failed: Fatalf ends the process
Fatal ==
  /\ ppc = "parsed"
  /\ pres.err # Success
  /\ ppc' = "exit"
  /\ UNCHANGED <<source, lineNo, stmtNo, input, at, pres, open>>
  /\ UNCHANGED mvars

NextMain ==
  \/ ReadLine
  \/ ParseEquation
  \/ ParseSpec
  \/ ParseTable
  \/ ParseRun
  \/ ParseInvalidMode
  \/ Return
  \/ EvalAR
  \/ Propagate
  \/ EvalLS
  \/ Advance
  \/ RunEnd
  \/ Quit
  \/ Fatal

SpecMain == InitMain /\ [][NextMain]_vars

\* ============================================================ properties
\* ------------------------------------------------ the dependency graph
\* the names that need no defining equation as the specification states
\* them, system names and table names, and as Model.IsSystem decides them
Stated(tables) == SystemNames \cup DOMAIN tables

Passed(tables) == SystemTails \cup DOMAIN tables

\* the names of the dependencies of equation i of the list el
AllDepNames(el, i) == {el[i].Dependencies[k].Name : k \in 1..Len(el[i].Dependencies)}

\* the edges of the dependency graph among the equations at the positions B
\* when the names of free are dropped: <<i, j>> when equation i depends on
\* the target of equation j
Edges(free, el, B) ==
  {e \in B \X B : el[e[2]].Target.Name \in AllDepNames(el, e[1]) \ free}

\* the edges from an equation to itself are dropped
Proper(E) == {e \in E : e[1] # e[2]}

\* the pairs of E joined by a path of one or more edges
RECURSIVE Paths(_, _)
Paths(E, R) ==
  LET R2 == R \cup {p \in {<<a[1], b[2]>> : a \in R, b \in E} :
                      \E a \in R, b \in E : a[2] = b[1] /\ p = <<a[1], b[2]>>}
  IN  IF R2 = R THEN R ELSE Paths(E, R2)

Acyclic(E) == \A p \in Paths(E, E) : p[1] # p[2]

\* a name is the target of two equations of the init bucket or of two
\* equations of the run bucket
DupTarget(el) ==
  \E B \in {InitPos(el), RunPos(el)} :
    \E i, j \in B : i # j /\ el[i].Target.Name = el[j].Target.Name

\* the names the equations of the init and of the run bucket define
Defined(el) == {el[i].Target.Name : i \in InitPos(el) \cup RunPos(el)}

\* every dependency of the equations of the init and of the run bucket is
\* free or defined in one of the two buckets
Resolved(free, el) ==
  \A i \in InitPos(el) \cup RunPos(el) : (AllDepNames(el, i) \ free) \subseteq Defined(el)

\* the whole graph, and the graphs of the two buckets without self-edges
WholeAcyclic(free, el) == Acyclic(Edges(free, el, 1..Len(el)))

BucketsAcyclic(free, el) ==
  /\ Acyclic(Proper(Edges(free, el, InitPos(el))))
  /\ Acyclic(Proper(Edges(free, el, RunPos(el))))

\* ------------------------------------------------------------------- C1
\* C1 as stated: Sort succeeds if and only if the dependency graph of the
\* list is acyclic, and a cycle inside a bucket makes it fail with
\* DependencyLoop.
C1_SortIffAcyclic ==
  srt.called =>
    /\ (srt.out.res = Success) <=> WholeAcyclic(Stated(srt.tables), srt.el)
    /\ ~BucketsAcyclic(Stated(srt.tables), srt.el) => srt.out.res = "ErrModelDependencyLoop"

\* C1 amended: Sort succeeds if and only if no name is defined twice in the
\* init or in the run bucket, every dependency of an init or run equation
\* that IsSystem does not pass is defined in the init or in the run bucket,
\* and the graph of each of the two buckets, without the edges from an
\* equation to itself, is acyclic; with unique names and all dependencies
\* defined, a cycle inside a bucket makes Sort fail with DependencyLoop.
C1_SortIffSortable ==
  srt.called =>
    LET el == srt.el
        tb == Passed(srt.tables)
    IN  /\ (srt.out.res = Success) <=>
              (~DupTarget(el) /\ Resolved(tb, el) /\ BucketsAcyclic(tb, el))
        /\ (~DupTarget(el) /\ Resolved(tb, el) /\ ~BucketsAcyclic(tb, el))
              => srt.out.res = "ErrModelDependencyLoop"

\* Sort has failed with DependencyLoop on a list with unique names and all
\* dependencies defined that has a cycle in its run bucket
C1_Witness ==
  /\ srt.called
  /\ ~DupTarget(srt.el)
  /\ Resolved(Passed(srt.tables), srt.el)
  /\ ~Acyclic(Proper(Edges(Passed(srt.tables), srt.el, RunPos(srt.el))))
  /\ srt.out.res = "ErrModelDependencyLoop"

\* ------------------------------------------------------------------- C2
\* the positions of the bucket of el that position i belongs to
BucketOf(el, i) ==
  IF i \in InitPos(el) THEN InitPos(el)
  ELSE IF i \in RunPos(el) THEN RunPos(el) ELSE SupplPos(el)

\* C2 as stated: after a successful Sort every dependency of every equation
\* of the sorted list is a system name or the target of an equation that
\* comes before it in its bucket.
C2_DepsDefinedBefore ==
  (srt.called /\ srt.out.res = Success) =>
    LET out == srt.out.eqns
    IN  \A i \in 1..Len(out) : \A d \in AllDepNames(out, i) :
          \/ d \in SystemNames
          \/ \E j \in BucketOf(out, i) : j < i /\ out[j].Target.Name = d

\* C2 amended: after a successful Sort every dependency of every equation
\* of the init and of the run bucket is a name IsSystem passes (a system
\* name, a trailing part of a system name, or a table name), the target of the equation itself, the target of an equation that comes
\* before it in its bucket, or the target of an equation of the other of
\* the two buckets.
C2_DepsDefinedBeforeOrElsewhere ==
  (srt.called /\ srt.out.res = Success) =>
    LET out == srt.out.eqns
    IN  \A i \in InitPos(out) \cup RunPos(out) : \A d \in AllDepNames(out, i) :
          \/ d \in Passed(srt.tables)
          \/ out[i].Target.Name = d
          \/ \E j \in BucketOf(out, i) : j < i /\ out[j].Target.Name = d
          \/ \E j \in (InitPos(out) \cup RunPos(out)) \ BucketOf(out, i) :
                out[j].Target.Name = d

\* Sort has succeeded on a list in which an equation of the run bucket was
\* given before the equation of the run bucket it depends on
C2_Witness ==
  /\ srt.called
  /\ srt.out.res = Success
  /\ \E i, j \in RunPos(srt.el) :
       /\ i < j
       /\ srt.el[j].Target.Name \in AllDepNames(srt.el, i)
       /\ srt.el[j].Target.Name \notin Passed(srt.tables)

\* ------------------------------------------------------------------- C3
\* the position of the equation the run loop evaluates next, or 0
Pending ==
  IF pc = "AR" THEN next(Eqns.eqns, idx, {"A", "R"})
  ELSE IF pc = "LS" THEN next(Eqns.eqns, idx, {"L", "S"}) ELSE 0

\* the positions of the A and R equations of the run subset
RatePos == {j \in 1..Len(Eqns.eqns) : j > split(Eqns.eqns) /\ Eqns.eqns[j].Mode \in {"A", "R"}}

\* the positions evaluated in the current step before the a-th evaluation
Before(a) == {evald[b] : b \in 1..(a - 1)}

\* C3: within every step of the run loop all A and R equations of the run
\* subset have been evaluated before any L equation is evaluated.
C3_RatesBeforeLevels ==
  /\ (Pending # 0 /\ Eqns.eqns[Pending].Mode = "L") => RatePos \subseteq Range(evald)
  /\ \A a \in 1..Len(evald) :
       Eqns.eqns[evald[a]].Mode = "L" => RatePos \subseteq Before(a)

\* a level has been evaluated in a step after a rate, and another level is
\* about to be evaluated
C3_Witness ==
  /\ pc = "LS"
  /\ \E a \in 1..Len(evald) :
       /\ Eqns.eqns[evald[a]].Mode = "L"
       /\ \E b \in 1..(a - 1) : Eqns.eqns[evald[b]].Mode = "R"
  /\ RatePos # {}

\* ------------------------------------------------------------------- C4
\* the positions of the A and R equations that define a dependency of the
\* equation at position i
Definers(i) ==
  {j \in 1..Len(Eqns.eqns) :
     /\ Eqns.eqns[j].Mode \in {"A", "R"}
     /\ Eqns.eqns[j].Target.Name \in AllDepNames(Eqns.eqns, i)}

WellFormed(st) ==
  /\ NewEquation(st).res = Success
  /\ \A i \in 1..Len(NewEquation(st).eqns) :
       validateEqn(Tables, NewEquation(st).eqns[i], NilList) = Success

\* an equation of the statement st matches an equation of the list
Duplicates(st) ==
  \E i \in 1..Len(NewEquation(st).eqns) : Contains(Eqns.eqns, NewEquation(st).eqns[i])

\* C5: while the model is not in editing mode, an equation statement with
\* an equation that matches one of the equation list fails with
\* EqnOverwrite.
C5_DuplicateFails ==
  [][\A st \in deck :
       (AddEquationOf(st) /\ ~Edit /\ WellFormed(st) /\ Duplicates(st))
         => res' = "ErrModelEqnOverwrite"]_vars

\* ------------------------------------------------------------------- C6
\* C6 as stated: every processed RUN statement clears the editing flag,
\* sets the run-id, executes Run and then Output, and leaves the stack
\* holding the current equation list under the run-id.
C6_RunStacks ==
  [][(stmt'.mode = "RUN" /\ pc' = "idle") =>
       /\ ~Edit'
       /\ RunID' = stmt'.id
       /\ calls' = <<"Run", "Output">>
       /\ stmt'.id \in DOMAIN Stack'
       /\ Stack'[stmt'.id] = Eqns'.eqns]_vars

\* C6 amended: every processed RUN statement clears the editing flag, sets
\* the run-id and executes Run; when Run succeeds it executes Output and
\* leaves the stack holding a copy of the current equation list under the
\* run-id, which no longer is the list a stack entry points to; when Run
\* fails Output is not executed and the stack is left as it was.
C6_RunStacksOnSuccess ==
  [][(stmt'.mode = "RUN" /\ pc' = "idle") =>
       /\ ~Edit'
       /\ RunID' = stmt'.id
       /\ alias' = ""
       /\ IF res' = Success
            THEN /\ calls' = <<"Run", "Output">>
                 /\ stmt'.id \in DOMAIN Stack'
                 /\ Stack'[stmt'.id] = Eqns'.eqns
            ELSE /\ calls' = <<"Run">>
                 /\ Stack' = Stack]_vars

\* a second RUN statement has succeeded, and the stack holds the list it
\* has run
C6_Witness ==
  /\ stmt.mode = "RUN"
  /\ pc = "idle"
  /\ res = Success
  /\ nrun = 2
  /\ calls = <<"Run", "Output">>
  /\ Stack[stmt.id] = Eqns.eqns
  /\ Len(Eqns.eqns) > 2

\* ------------------------------------------------------------------- C7
\* some equation has a dependency that is defined neither in its own bucket
\* nor, for an equation of the run bucket, in the init bucket
Undefined(free, el) ==
  \E i \in 1..Len(el) : \E d \in AllDepNames(el, i) \ free :
    /\ d \notin {el[j].Target.Name : j \in BucketOf(el, i)}
    /\ ~(i \in RunPos(el) /\ d \in {el[j].Target.Name : j \in InitPos(el)})

\* C7 as stated: Sort fails with UnknownEqn whenever some equation has a
\* dependency defined neither in its own bucket nor, for an equation of the
\* run bucket only, in the init bucket.
C7_UndefinedFails ==
  (srt.called /\ Undefined(Stated(srt.tables), srt.el)) => srt.out.res = "ErrModelUnknownEqn"

\* C7 amended: Sort fails whenever an equation of the init or of the run
\* bucket has a dependency that IsSystem does not pass and that is defined
\* in neither of the two buckets:
\* with VariabeExists when a name is defined twice in a bucket, else with
\* UnknownEqn or, only when a bucket has a cycle, with DependencyLoop.
C7_UnresolvedFails ==
  (srt.called /\ ~Resolved(Passed(srt.tables), srt.el)) =>
    /\ srt.out.res \in {"ErrModelUnknownEqn", "ErrModelVariabeExists", "ErrModelDependencyLoop"}
    /\ DupTarget(srt.el) <=> srt.out.res = "ErrModelVariabeExists"
    /\ (~DupTarget(srt.el) /\ BucketsAcyclic(Passed(srt.tables), srt.el))
         => srt.out.res = "ErrModelUnknownEqn"

\* Sort has failed with UnknownEqn on a list with unique names and no
\* cycle in which a dependency has no defining equation
C7_Witness ==
  /\ srt.called
  /\ ~Resolved(Passed(srt.tables), srt.el)
  /\ ~DupTarget(srt.el)
  /\ BucketsAcyclic(Passed(srt.tables), srt.el)
  /\ Len(srt.el) > 1
  /\ srt.out.res = "ErrModelUnknownEqn"

\* ------------------------------------------------------------------- C8
\* C8: no equation of the equation list of the model has a target of stage
\* OLD.
C8_NoOldTarget ==
  \A i \in 1..Len(Eqns.eqns) : Eqns.eqns[i].Target.Stage # NAME_STAGE_OLD

\* ------------------------------------------------------------------- C9
\* C9: an R statement whose target is not of kind RATE is rejected with
\* EqnBadTargetKind and the equation list is left as it was.
C9_BadRateTargetRejected ==
  [][\A st \in deck :
       (/\ AddEquationOf(st)
        /\ st.mode = "R"
        /\ NewEquation(st).res = Success
        /\ NewEquation(st).eqns[1].Target.Kind # NAME_KIND_RATE)
         => (res' = "ErrModelEqnBadTargetKind" /\ Eqns' = Eqns)]_vars

\* ------------------------------------------------------------------ C10
\* the first failure met when the equations eqns of a statement are
\* processed one after the other from position i on
RECURSIVE FirstFailure(_, _, _, _, _)
FirstFailure(tables, eqns, i, list, edit) ==
  IF i > Len(eqns) THEN Success
  ELSE LET v == validateEqn(tables, eqns[i], NilList)
       IN  IF v # Success THEN v
           ELSE IF Contains(list, eqns[i])
             THEN IF ~edit THEN "ErrModelEqnOverwrite"
                  ELSE FirstFailure(tables, eqns, i + 1, Replace(list, eqns[i]), edit)
             ELSE FirstFailure(tables, eqns, i + 1, Append(list, eqns[i]), edit)

\* C10: the Result of an equation statement is the first failure met in
\* processing its equations, whatever becomes of its other equations.
C10_FirstFailureSurfaces ==
  [][\A st \in deck :
       (AddEquationOf(st) /\ NewEquation(st).res = Success)
         => res' = FirstFailure(Tables, NewEquation(st).eqns, 1, Eqns.eqns, Edit)]_vars

\* ------------------------------------------------------------------ C11
\* the constant statement with the definitions of a SPEC statement
AsConst(st) == [mode |-> "C", frags |-> st.frags]

\* what AddStatement makes of an equation statement: [list, res]
EquationEffect(st, tables, list, edit) ==
  LET ne == NewEquation(st)
      lr == addLoop(tables, ne.eqns, 1, list, ne.res, edit)
  IN  IF ne.res # Success THEN [list |-> list, res |-> ne.res] ELSE lr

\* C11: a SPEC statement has the effect of the C statement with the same
\* definitions: the same result, and the same equation list afterwards,
\* outside and inside editing mode
C11_SpecAsConst ==
  [][\A st \in deck :
       AddSpecOf(st) =>
         LET c == EquationEffect(AsConst(st), Tables, Eqns.eqns, Edit)
         IN  res' = c.res /\ Eqns'.eqns = c.list]_vars

\* ------------------------------------------------------------------ C12
\* the C equations of a list that have a dependency IsSystem does not pass
ConstWithDeps(tables, el) ==
  {i \in 1..Len(el) : /\ el[i].Mode = "C"
                      /\ \E k \in 1..Len(el[i].Dependencies) :
                           ~IsSystem(tables, el[i].Dependencies[k].Name)}

\* the C equations of a list all of whose dependencies are targets of C
\* equations of the list
ConstOnConst(el) ==
  {i \in 1..Len(el) : /\ el[i].Mode = "C"
                      /\ \A k \in 1..Len(el[i].Dependencies) :
                           \E j \in 1..Len(el) : /\ el[j].Mode = "C"
                                                 /\ el[j].Target.Name = el[i].Dependencies[k].Name}

DefinedAs(el, n, m) == {j \in 1..Len(el) : el[j].Mode = m /\ el[j].Target.Name = n}

\* the dependencies <<i, k>> of a list whose display key is absent while
\* the alternative equation exists: an N equation for a name read as a
\* constant, an A equation for a name read as a level
Alternatives(tables, el) ==
  {p \in UNION {{<<i, k>> : k \in 1..Len(el[i].Dependencies)} : i \in 1..Len(el)} :
     LET d == el[p[1]].Dependencies[p[2]]
     IN  /\ ~IsSystem(tables, d.Name)
         /\ ~HasKey(MapOf(el), String(d))
         /\ \/ d.Kind = NAME_KIND_CONST /\ DefinedAs(el, d.Name, "N") # {}
            \/ d.Kind = NAME_KIND_LEVEL /\ DefinedAs(el, d.Name, "A") # {}}

\* C13: once the list is sorted, the validation of an equation for a
\* dependency whose display key is absent while its alternative exists does
\* not fail with UnknownEqn
C13_AlternativeResolves ==
  srt.called /\ srt.out.res = Success =>
    \A p \in Alternatives(srt.tables, srt.out.eqns) :
      LET e == srt.out.eqns[p[1]]
      IN  validateEqn(srt.tables, [e EXCEPT !.Dependencies = <<e.Dependencies[p[2]]>>],
                      MapOf(srt.out.eqns)) # "ErrModelUnknownEqn"

\* ------------------------------------------------------------------ C17
\* C17: sorting is deterministic: every result Sort can return for the
\* list of the last call is the result that call has returned
C17_SortDeterministic ==
  srt.called =>
    \A s \in Sort(srt.tables, srt.el) : s.res = srt.out.res /\ s.eqns = srt.out.eqns

\* ------------------------------------------------------------------ C20
\* a T statement that supplies fewer than two samples
TooSmall(st) == st.mode = "T" /\ (~st.eq \/ Len(st.data) < 2)

\* C20: a T statement with fewer than two samples - one sample, no sample,
\* or no "=" at all - returns TableTooSmall and stores no table
C20_SmallTableFails ==
  [][\A st \in deck :
       AddTableOf(st) /\ TooSmall(st) =>
         /\ pc' = "idle"
         /\ res' = "ErrParseTableTooSmall"
         /\ Tables' = Tables]_vars

\* ---------------------------------------------------------------------
\* C19: internal variables of TABLE and TABHL call sites
\* ---------------------------------------------------------------------

\* the calls of a right side
RECURSIVE CallSites(_)
CallSites(ops) ==
  IF ops = <<>> THEN {}
  ELSE LET x == Head(ops)
           h == CASE x.k = "tab" -> {x}
                  [] x.k = "bin" -> CallSites(<<x.x, x.y>>)
                  [] x.k = "par" -> CallSites(<<x.x>>)
                  [] OTHER -> {}
       IN  h \cup CallSites(Tail(ops))

\* the calls of the equations of the model
StoredCalls == UNION { CallSites(Eqns.eqns[i].Formula.ops) : i \in DOMAIN Eqns.eqns }

\* C19: every TABLE call of a stored equation has got no internal
\* variable and every TABHL call has got exactly one, its sixth argument
C19_TableVars ==
  \A c \in StoredCalls :
    /\ c.f = "TABLE" => Len(c.args) = 0
    /\ c.f = "TABHL" => Len(c.args) = 1

\* ---------------------------------------------------------------------
\* C14: the Line of a failure of Parse
\* ---------------------------------------------------------------------

\* Parse has returned a failure of the dispatcher
ParseFailed == ppc = "parsed" /\ pres.err # Success

\* C14: when Parse has failed because the dispatcher has rejected a
\* statement, the Line of the Result is the number of the first line of
\* that statement (stmtNo, the number of the line that became the pending
\* input), wherever the statement stands in the source
C14_LineOfStatement == ParseFailed => pres.Line = stmtNo

\* ---------------------------------------------------------------------
\* C15: lines without a recognized mode
\* ---------------------------------------------------------------------

\* a line whose first token is no mode of the dispatcher: a statement with
\* an unknown mode, or text without a space
Unmoded(line) == line.k = "bare" \/ (line.k = "stmt" /\ line.st.mode \notin Modes)

\* the lines that have been handed to parseInput when Parse returns: all
\* lines before the one that was read last
Flushed == {i \in DOMAIN source : i < lineNo}

\* C15: when Parse has returned and a line without a recognized mode has
\* been processed, equation without a mode token included, Parse has
\* failed with InvalidMode
C15_InvalidMode ==
  (ppc = "parsed" /\ \E i \in Flushed : Unmoded(source[i])) => pres.err = "ErrParseInvalidMode"

\* ---------------------------------------------------------------------
\* C16: the sinks are closed on every exit path
\* ---------------------------------------------------------------------

\* C16: when main ends, after a successful completion, a failed parse or a
\* failed run, the files of the printer, the plotter and the debugger have
\* all been closed
C16_ClosedOnExit == ppc = "exit" => open = {}

\* ---------------------------------------------------------------------
\* C18: the coffee model
\* ---------------------------------------------------------------------

\* the run of the coffee model is at the begin of epoch e: e - 1 steps have
\* been completed
CoffeeAt(e) ==
  /\ source = SrcCoffee
  /\ pc \in {"AR", "done"}
  /\ epoch = e
  /\ evald = <<>>

\* the values within 1e-3 of v
Near(v) == (v - Unit \div 1000)..(v + Unit \div 1000)

\* a step of the coffee model does not raise COFFEE, and a step that
\* evaluates the level lowers it
CoffeeFalls ==
  (source = SrcCoffee /\ "COFFEE" \in DOMAIN Current /\ "COFFEE" \in DOMAIN Current')
    => /\ Current'["COFFEE"] <= Current["COFFEE"]
       /\ (pc = "LS" /\ pc' = "LS") => Current'["COFFEE"] < Current["COFFEE"]

\* C18 as stated: COFFEE is within 1e-3 of 27.52 after ten steps
C18_Coffee2752 == CoffeeAt(11) => Current["COFFEE"] \in Near(275200)

\* C18: for the coffee model COFFEE is 90 before the first step, is within
\* 1e-3 of 27.516 after ten steps, and decreases over the run
C18_CoffeeCools ==
  /\ [](CoffeeAt(1) => Current["COFFEE"] = 90 * Unit)
  /\ [](CoffeeAt(11) => Current["COFFEE"] \in Near(275160))
  /\ [][CoffeeFalls]_vars

\* ten steps of the coffee model have been completed
C18_Witness == CoffeeAt(11) /\ Current["COFFEE"] < 30 * Unit

\* ---------------------------------------------------------------------
\* C23: the stacked equation lists
\* ---------------------------------------------------------------------

\* C23: the equation list stacked under a run-id is changed by nothing but
\* the end of a successful RUN of that run-id, so that EDIT recalls the
\* equations that RUN has stacked whatever statements came in between
C23_StackFrozen ==
  [][\A id \in DOMAIN Stack :
       Stack'[id] # Stack[id] => (pc = "done" /\ RunID = id)]_vars

\* ---------------------------------------------------------------------
\* C24: EqnOverwrite and the equation list
\* ---------------------------------------------------------------------

\* C24: an equation statement that fails with EqnOverwrite leaves the
\* equation list of the model as it was before the statement
C24_OverwriteKeepsList ==
  [][\A st \in deck :
       (AddEquationOf(st) /\ res' = "ErrModelEqnOverwrite") => Eqns' = Eqns]_vars

\* ---------------------------------------------------------------------
\* C27: the equation list after a RUN that fails in Sort or Validate
\* ---------------------------------------------------------------------

\* the number of times e is in the list el
Count(el, e) == Cardinality({i \in DOMAIN el : el[i] = e})

\* the lists a and b hold the same equations
SameEquations(a, b) == \A e \in Range(a) \cup Range(b) : Count(a, e) = Count(b, e)

\* the RUN statement of this step has failed in Sort or in Validate
RunRejected ==
  /\ \E id \in RunIds : RunBeginOf(id)
  /\ srt'.out.res # Success \/ Validate(Tables, srt'.out.eqns) # Success

\* C27: a RUN that fails in Sort or in Validate leaves the equation list
\* of the model with the equations it had before the statement
C27_FailedRunKeepsList ==
  [][RunRejected => (~Eqns'.nil /\ SameEquations(Eqns.eqns, Eqns'.eqns))]_vars

\* ---------------------------------------------------------------------
\* C25: the steps of a RUN that follows a RUN
\* ---------------------------------------------------------------------

\* the state a first RUN of the sorted list el starts its loop with: the
\* init equations are computed on the empty state, the defaults are set
FirstState(tables, el) ==
  setDefs(compute({"C", "N", "R", "A"}, SubSeq(el, 1, split(el)), tables, Empty, Empty).cur)

\* the number of steps of the loop of Run from time t0 for a positive dt
StepsFrom(t0, d, len) == IF t0 > len THEN 0 ELSE (len - t0) \div d + 1

\* C25: a RUN that has succeeded has executed the steps of a first RUN of
\* its equations, from the initial TIME through LENGTH, whether or not a RUN
\* or an EDIT has come before it
C25_RunFromStart ==
  (pc = "done" /\ dt > 0)
    => epoch - 1 = StepsFrom(FirstState(Tables, Eqns.eqns)["TIME"], dt, length)

\* ---------------------------------------------------------------------
\* C28: the previous state within a step
\* ---------------------------------------------------------------------

\* the names the L and S equations of the list read at stage OLD
OldReads(el) ==
  UNION {Range(el[i].References) : i \in {j \in DOMAIN el : el[j].Mode \in {"L", "S"}}}

\* C28: the previous state of a step is the state at the end of the A/R
\* evaluation; the evaluation of an L or S equation does not change it, and
\* what an L or S equation reads at stage OLD is the same before and after
\* every such evaluation, so it does not depend on the order of the L and S
\* equations
C28_OldReadsFrozen ==
  [][/\ (pc = "AR" /\ pc' = "LS") => Last' = Current
     /\ (pc = "LS" /\ pc' = "LS") =>
          /\ Last' = Last
          /\ \A r \in OldReads(Eqns.eqns) :
               Get(r, Current', Last') = Get(r, Current, Last)]_vars

\* a level has been evaluated in this step and its value is no longer the
\* one of the previous state, which an equation reads at stage OLD
C28_Witness ==
  /\ pc = "LS"
  /\ evald # <<>>
  /\ \E r \in OldReads(Eqns.eqns) :
       /\ r.Name \in DOMAIN Last
       /\ r.Name \in DOMAIN Current
       /\ Current[r.Name] # Last[r.Name]


\* ---------------------------------------------------------------------
\* C22: the display form of a name and the name parsed from it
\* ---------------------------------------------------------------------

\* the text left of the display form d = <<NAME, "/K">> when the kind marker
\* is replaced by the empty string
StripKind(d) == [n |-> d[1], i |-> ""]

\* the name parsed from the stripped display form of the name n
Reparse(n) == NewNameFromString(StripKind(String(n))).name

\* the names of the equations of the model: targets, dependencies, references
ModelNames ==
  UNION {{Eqns.eqns[i].Target} \cup Range(Eqns.eqns[i].Dependencies)
           \cup Range(Eqns.eqns[i].References) : i \in 1..Len(Eqns.eqns)}

\* C22 (as stated): parsing the display form of a name, kind marker
\* stripped, gives back the text, the kind and the stage of the name
C22_RoundTrip == \A n \in ModelNames : Reparse(n) = n

\* C22 (amended): parsing the stripped display form gives back the text of
\* the name, always as a constant without stage; kind and stage are
\* reconstructed exactly for the names that are constants without stage
C22_RoundTripText ==
  \A n \in ModelNames :
    /\ Reparse(n) = [Name |-> n.Name, Kind |-> NAME_KIND_CONST, Stage |-> NAME_STAGE_NONE]
    /\ Reparse(n) = n <=> (n.Kind = NAME_KIND_CONST /\ n.Stage = NAME_STAGE_NONE)

\* the model holds a level of the new state, a rate of the old state and a
\* constant without stage
C22_Witness ==
  /\ \E n \in ModelNames : n.Kind = NAME_KIND_LEVEL /\ n.Stage = NAME_STAGE_NEW
  /\ \E n \in ModelNames : n.Kind = NAME_KIND_RATE /\ n.Stage = NAME_STAGE_OLD
  /\ \E n \in ModelNames : n.Kind = NAME_KIND_CONST /\ n.Stage = NAME_STAGE_NONE

\* ---------------------------------------------------------------------
\* C21: the nested arguments of a call
\* ---------------------------------------------------------------------

\* the calls of the stored equations whose position argument is a binary
\* expression, an expression in parentheses or a unary minus
NestedCalls == {c \in StoredCalls : c.pos.k \in {"bin", "par", "neg"}}

\* the evaluator of the call c receives the value of its position argument
Received(c) ==
  LET v == term(c.pos, Tables, Current, Last)
      a == arg(c.pos, term(Nested(c.pos), Tables, Current, Last), Current)
  IN  v.res = Success =>
        /\ a.res = Success
        /\ resolve(a.text, a.cur, Last) = [val |-> v.val, res |-> Success]

\* C21: while the equations of a step are evaluated, the evaluator of a
\* call receives, for an argument that is a binary expression, an
\* expression in parentheses or a unary minus, the value of that argument
C21_NestedArgsEvaluated == pc = "AR" => \A c \in NestedCalls : Received(c)

\* ---------------------------------------------------------------------
\* C29: the range tracker of a table call
\* ---------------------------------------------------------------------

\* the calls of the equation that has been evaluated last in this step
LastCalls(ev, el) == IF ev = <<>> THEN {} ELSE CallSites(el[ev[Len(ev)]].Formula.ops)

\* C29: when an A or R equation has been evaluated, the tracker of each of
\* its table calls with an internal variable holds the region of the
\* position the call has looked up: -1 below the table, 0 inside, 1 above
C29_TrackerIsRegion ==
  [][(pc = "AR" /\ pc' = "AR" /\ evald' # evald) =>
       \A c \in LastCalls(evald', Eqns.eqns) :
         c.args # <<>> =>
           /\ c.args[1] \in DOMAIN Current'
           /\ Current'[c.args[1]] =
                Region(term(c.pos, Tables, Current, Last).val, Len(Tables[c.n]) - 1) * Unit]_vars

\* ---------------------------------------------------------------------
\* C26: the end of Run
\* ---------------------------------------------------------------------

\* the loop has been entered, and with a positive time step the number of
\* its steps is within the bound of the model
LoopEntered == pc = "AR" /\ epoch = 1 /\ evald = <<>> /\ (dt > 0 => StepsFrom(t, dt, length) <= MaxEpoch)

\* the loop has been left: its condition is false, or an equation has failed
LoopLeft == pc \in {"done", "idle"}

StepKeepsLoop == [][(Advance /\ dt <= 0 /\ t <= length /\ res' = Success) => (pc' = "AR" /\ t' <= t /\ t' <= length /\ dt' = dt /\ length' = length)]_vars

\* ---------------------------------------------------------------------
\* C30: the print jobs of a run
\* ---------------------------------------------------------------------

\* the RUN statement has generated its output and no statement has
\* followed
Generated == pc = "idle" /\ calls # <<>> /\ calls[Len(calls)] = "Output"

\* C30: when a run has generated its output to a print file, every job
\* that has been prepared since the last reset has been written
C30_AllJobsPrinted == (Generated /\ Printer.file) => Printer.out = Printer.jobs

====
